---- MODULE Spec2Model ----
(***************************************************************************)
(* A model of the xiayu SQL query builder: the AST, the dialect visitors   *)
(* (Postgres, SQLite, MSSQL) and the MSSQL compatibility rewriting.        *)
(*                                                                         *)
(* One behaviour is one test harness run: it picks a dialect and a query,  *)
(* then calls build(query) up to MaxBuilds times.  A build is run as a     *)
(* stack machine: the visitor's call stack is the variable `stack`, every  *)
(* visit_* method is an operator giving the calls and writes the method    *)
(* makes, in order, and one step executes the call on top of the stack.    *)
(* The text buffer is the sequence of the chunks written by write().       *)
(***************************************************************************)
EXTENDS Integers, Sequences, FiniteSets, TLC

VARIABLES
    dialect,        \* which Visitor implementation build is called on
    ast,            \* the Query handed to build
    ms_unlisted,    \* outcome of TryFrom<Value> for the kinds its match omits
    request,        \* the execution layer: one request on a connection
    pc,             \* "idle" | "running" | "aborted"
    stack,          \* pending calls of the running build
    query,          \* self.query: the chunks written so far
    parameters,     \* self.parameters
    order_by_set,   \* Mssql::order_by_set
    bound,          \* history: the value each written placeholder stands for
    results         \* the results of the finished build calls

vars == <<dialect, ast, ms_unlisted, request, pc, stack, query, parameters,
          order_by_set, bound, results>>

----------------------------------------------------------------------------
(* Bounds of the model. *)

\* number of build calls in one behaviour
MaxBuilds == 2
\* rows of a Values table
MaxRows == 2
\* width of a Row
MaxWidth == 2

----------------------------------------------------------------------------
(* Generic helpers. *)

None == <<>>
Some(x) == <<x>>
IsSome(o) == Len(o) = 1
IsNone(o) == Len(o) = 0
Unwrap(o) == o[1]

RECURSIVE Flatten(_)
Flatten(ss) == IF Len(ss) = 0 THEN <<>> ELSE Head(ss) \o Flatten(Tail(ss))

\* the text of a buffer: its chunks one after the other
RECURSIVE Concat(_)
Concat(chunks) ==
    IF Len(chunks) = 0 THEN ""
    ELSE IF Len(chunks) = 1 THEN chunks[1]
    ELSE LET half == Len(chunks) \div 2
         IN Concat(SubSeq(chunks, 1, half)) \o Concat(SubSeq(chunks, half + 1, Len(chunks)))

Dialects == {"Postgres", "Sqlite", "Mssql"}

----------------------------------------------------------------------------
(* ast::Value.  Every variant wraps an Option; `null` is the None case.    *)
(* `i` carries integers and booleans (1/0), `s` carries text, `b` bytes.   *)

Value(kind, null, i, s) == [kind |-> kind, null |-> null, i |-> i, s |-> s, b |-> <<>>]
Value_integer(n) == Value("Integer", FALSE, n, "")
Value_text(t) == Value("Text", FALSE, 0, t)
Value_boolean(b) == Value("Boolean", FALSE, IF b THEN 1 ELSE 0, "")
Value_null(kind) == Value(kind, TRUE, 0, "")

\* Value::bytes, Value::uuid, Value::datetime: `s` carries the hyphenated text
\* of the UUID and the RFC 3339 text of the time
Value_bytes(bs) == [Value("Bytes", FALSE, 0, "") EXCEPT !.b = bs]
Value_uuid(t) == Value("Uuid", FALSE, 0, t)
Value_datetime(t) == Value("DateTime", FALSE, 0, t)

\* hex::encode: two lower-case digits for every byte
HexDigits == <<"0", "1", "2", "3", "4", "5", "6", "7", "8", "9", "a", "b", "c", "d", "e", "f">>
RECURSIVE hex_encode(_)
hex_encode(bs) ==
    IF Len(bs) = 0 THEN ""
    ELSE HexDigits[(Head(bs) \div 16) + 1] \o HexDigits[(Head(bs) % 16) + 1]
         \o hex_encode(Tail(bs))

\* Value::as_i64
as_i64(v) == IF v.kind = "Integer" /\ ~v.null THEN Some(v.i) ELSE None

\* fmt::Display of an integer, as write(i) prints it
Display(n) == ToString(n)

----------------------------------------------------------------------------
(* AST constructors. *)

Table(name) ==
    [typ |-> [tt |-> "Table", name |-> name], alias |-> None, database |-> None,
     index_definitions |-> <<>>]
TableQuery(select, alias) ==
    [typ |-> [tt |-> "Query", select |-> select], alias |-> alias, database |-> None,
     index_definitions |-> <<>>]

Column(name) ==
    [name |-> name, table |-> None, alias |-> None, default |-> None, type_family |-> None]
ColumnOf(tname, name) == [Column(name) EXCEPT !.table = Some(Table(tname))]
\* Column::into_bare
into_bare(c) == Column(c.name)
\* Column::table
Column_table(c, t) == [c EXCEPT !.table = Some(t)]
\* PartialEq for Column: the name and the table; PartialEq for Table: typ and database
Column_eq(a, b) ==
    /\ a.name = b.name
    /\ IsSome(a.table) = IsSome(b.table)
    /\ IsSome(a.table) =>
          /\ Unwrap(a.table).typ = Unwrap(b.table).typ
          /\ Unwrap(a.table).database = Unwrap(b.table).database

Expression(kind) == [kind |-> kind, alias |-> None]
Aliased(e, a) == [e EXCEPT !.alias = Some(a)]
Parameterized(v) == Expression([k |-> "Parameterized", value |-> v])
RawValue(v) == Expression([k |-> "RawValue", value |-> v])
ColumnExpr(c) == Expression([k |-> "Column", column |-> c])
RowExpr(values) == Expression([k |-> "Row", values |-> values])
ValuesExpr(rows) == Expression([k |-> "Values", rows |-> rows])
SelectionExpr(sel) == Expression([k |-> "Selection", selection |-> sel])
CompareExpr(c, left, right) ==
    Expression([k |-> "Compare", compare |-> [c |-> c, left |-> left, right |-> right]])
TreeExpr(tree) == Expression([k |-> "ConditionTree", tree |-> tree])

And(es) == [ct |-> "And", list |-> es]
Or(es) == [ct |-> "Or", list |-> es]
Not(e) == [ct |-> "Not", list |-> <<e>>]
Single(e) == [ct |-> "Single", list |-> <<e>>]
NoCondition == [ct |-> "NoCondition", list |-> <<>>]
NegativeCondition == [ct |-> "NegativeCondition", list |-> <<>>]

\* Select::default()
Select_default ==
    [distinct |-> FALSE, tables |-> <<>>, columns |-> <<>>, conditions |-> None,
     ordering |-> <<>>, limit |-> None, offset |-> None, ctes |-> <<>>]
Select_from_table(t) == [Select_default EXCEPT !.tables = <<t>>]
Select_value(sel, e) == [sel EXCEPT !.columns = Append(@, e)]

Query_Select(sel) == [q |-> "Select", node |-> sel]
Query_Insert(ins) == [q |-> "Insert", node |-> ins]
Query_Union(un) == [q |-> "Union", node |-> un]
Query_Merge(m) == [q |-> "Merge", node |-> m]

\* Union::new(select).all(select)...
Union(selects, types) == [selects |-> selects, types |-> types]

Insert(table, columns, values, on_conflict, returning) ==
    [table |-> table, columns |-> columns, values |-> values,
     on_conflict |-> on_conflict, returning |-> returning]

Query_Update(up) == [q |-> "Update", node |-> up]
\* Update::table
Update_table(table) ==
    [table |-> table, columns |-> <<>>, values |-> <<>>, conditions |-> None]
\* variant: the value goes to the front of its list
set_value_first(update, column, value) ==
    [update EXCEPT !.columns = Append(@, column), !.values = <<value>> \o @]
\* Update::set
Update_set(update, column, value) ==
    [update EXCEPT !.columns = Append(@, column), !.values = Append(@, value)]
\* Update::so_that
Update_so_that(update, conditions) == [update EXCEPT !.conditions = Some(conditions)]

IndexSingle(c) == [idx |-> "Single", cols |-> <<c>>]
IndexCompound(cs) == [idx |-> "Compound", cols |-> cs]
\* Table::add_unique_index
add_unique_index(t, index) == [t EXCEPT !.index_definitions = Append(@, index)]
\* Column::default(DefaultValue::Provided(v)) / DefaultValue::Generated
WithDefault(c, v) == [c EXCEPT !.default = Some([dv |-> "Provided", value |-> v])]
WithGenerated(c) == [c EXCEPT !.default = Some([dv |-> "Generated", value |-> Value_null("Text")])]

----------------------------------------------------------------------------
(* Calls on the visitor's stack. *)

W(s) == [op |-> "write", arg |-> s]
Call(op, arg) == [op |-> op, arg |-> arg]
Raise(kind) == [op |-> "raise", arg |-> kind]
Panic(msg) == [op |-> "panic", arg |-> msg]

\* for (i, x) in xs.enumerate() { F(x)?; if i < len - 1 { write(sep)? } }
JoinWith(parts, sep) ==
    Flatten([i \in 1..Len(parts) |->
                parts[i] \o (IF i < Len(parts) THEN <<W(sep)>> ELSE <<>>)])

----------------------------------------------------------------------------
(* Visitor: the parts every dialect shares. *)

\* SQLite quotes identifiers with the grave accent, which a TLA+ string cannot
\* hold on its own: the model writes that character as ^.
C_BACKTICK_OPEN == CASE dialect = "Postgres" -> "\""
                     [] dialect = "Sqlite" -> "^"
                     [] dialect = "Mssql" -> "["
C_BACKTICK_CLOSE == CASE dialect = "Postgres" -> "\""
                      [] dialect = "Sqlite" -> "^"
                      [] dialect = "Mssql" -> "]"

surround_with(begin, end, body) == <<W(begin)>> \o body \o <<W(end)>>
surround_with_backticks(s) == <<W(C_BACKTICK_OPEN), W(s), W(C_BACKTICK_CLOSE)>>
delimited_identifiers(parts) == JoinWith([k \in DOMAIN parts |-> surround_with_backticks(parts[k])], ".")

visit_aliased(alias) ==
    IF IsSome(alias) THEN <<W(" AS ")>> \o delimited_identifiers(<<Unwrap(alias)>>) ELSE <<>>

visit_expression(e) ==
    LET kind == e.kind
        body == CASE kind.k = "ConditionTree" -> <<Call("visit_conditions", kind.tree)>>
                  [] kind.k = "Compare" -> <<Call("visit_compare", kind.compare)>>
                  [] kind.k = "Parameterized" -> <<Call("visit_parameterized", kind.value)>>
                  [] kind.k = "RawValue" -> <<Call("visit_raw_value", kind.value)>>
                  [] kind.k = "Column" -> <<Call("visit_column", kind.column)>>
                  [] kind.k = "Row" -> <<Call("visit_row", kind.values)>>
                  [] kind.k = "Selection" ->
                        surround_with("(", ")", <<Call("visit_select", kind.selection)>>)
                  [] kind.k = "Values" -> <<Call("visit_values", kind.rows)>>
                  [] kind.k = "Asterisk" ->
                        IF IsSome(kind.table)
                        THEN <<Call("visit_table", [table |-> Unwrap(kind.table),
                                                    include_alias |-> FALSE]), W(".*")>>
                        ELSE <<W("*")>>
                  [] kind.k = "Function" -> <<Call("visit_json_or_search", kind.fn)>>
                  [] kind.k = "Default" -> <<W("DEFAULT")>>
    IN body \o visit_aliased(e.alias)

visit_expressions(es, sep) ==
    JoinWith([k \in DOMAIN es |-> LET e == es[k] IN <<Call("visit_expression", e)>>], sep)

visit_columns(columns) == visit_expressions(columns, ", ")

visit_row(values) == surround_with("(", ")", visit_expressions(values, ","))

visit_rows(rows, sep) == JoinWith([k \in DOMAIN rows |-> LET r == rows[k] IN <<Call("visit_row", r)>>], sep)

Visitor_visit_values(rows) == surround_with("(", ")", visit_rows(rows, ","))

visit_table(table, include_alias) ==
    LET typ == table.typ
        body == CASE typ.tt = "Table" ->
                        IF IsSome(table.database)
                        THEN delimited_identifiers(<<Unwrap(table.database), typ.name>>)
                        ELSE delimited_identifiers(<<typ.name>>)
                  [] typ.tt = "Values" -> <<Call("visit_values", typ.rows)>>
                  [] typ.tt = "Query" ->
                        surround_with("(", ")", <<Call("visit_select", typ.select)>>)
    IN body \o (IF include_alias THEN visit_aliased(table.alias) ELSE <<>>)

visit_column(column) ==
    (IF IsSome(column.table)
     THEN <<Call("visit_table", [table |-> Unwrap(column.table), include_alias |-> FALSE]),
            W(".")>>
     ELSE <<>>)
    \o delimited_identifiers(<<column.name>>)
    \o visit_aliased(column.alias)

\* a variant of visit_conditions that writes no parentheses
conditions_without_parentheses(tree) ==
    CASE tree.ct = "And" -> visit_expressions(tree.list, " AND ")
      [] tree.ct = "Or" -> visit_expressions(tree.list, " OR ")
      [] tree.ct = "Not" -> <<W("NOT "), Call("visit_expression", tree.list[1])>>
      [] tree.ct = "Single" -> <<Call("visit_expression", tree.list[1])>>
      [] tree.ct = "NoCondition" -> <<W("1=1")>>
      [] tree.ct = "NegativeCondition" -> <<W("1=0")>>

visit_conditions(tree) ==
    CASE tree.ct = "And" -> surround_with("(", ")", visit_expressions(tree.list, " AND "))
      [] tree.ct = "Or" -> surround_with("(", ")", visit_expressions(tree.list, " OR "))
      [] tree.ct = "Not" ->
            surround_with("(", ")", <<W("NOT "), Call("visit_expression", tree.list[1])>>)
      [] tree.ct = "Single" -> <<Call("visit_expression", tree.list[1])>>
      [] tree.ct = "NoCondition" -> <<W("1=1")>>
      [] tree.ct = "NegativeCondition" -> <<W("1=0")>>

\* the SELECT list of a Select without explicit columns
visit_star(table) ==
    IF IsSome(table.alias)
    THEN surround_with_backticks(Unwrap(table.alias)) \o <<W(".*")>>
    ELSE IF table.typ.tt = "Table"
         THEN <<Call("visit_table", [table |-> table, include_alias |-> FALSE]), W(".*")>>
         ELSE <<W("*")>>

visit_cte(cte) ==
    surround_with_backticks(cte.identifier) \o <<W(" AS ")>>
    \o surround_with("(", ")", <<Call("visit_select", cte.selection)>>)

visit_select(select) ==
    (IF Len(select.ctes) > 0
     THEN <<W("WITH ")>> \o JoinWith([k \in DOMAIN select.ctes |-> visit_cte(select.ctes[k])], ", ") \o <<W(" ")>>
     ELSE <<>>)
    \o <<W("SELECT ")>>
    \o (IF select.distinct THEN <<W("DISTINCT ")>> ELSE <<>>)
    \o (IF Len(select.tables) > 0
        THEN (IF Len(select.columns) = 0
              THEN JoinWith([k \in DOMAIN select.tables |-> visit_star(select.tables[k])], ", ")
              ELSE visit_columns(select.columns))
             \o <<W(" FROM ")>>
             \o JoinWith([k \in DOMAIN select.tables |-> LET t == select.tables[k] IN <<Call("visit_table", [table |-> t, include_alias |-> TRUE])>>], ", ")
             \o (IF IsSome(select.conditions)
                 THEN <<W(" WHERE "), Call("visit_conditions", Unwrap(select.conditions))>>
                 ELSE <<>>)
             \o (IF Len(select.ordering) > 0
                 THEN <<W(" ORDER BY "), Call("visit_ordering", select.ordering)>>
                 ELSE <<>>)
             \o <<Call("visit_limit_and_offset",
                       [limit |-> select.limit, offset |-> select.offset])>>
        ELSE IF Len(select.columns) = 0
             THEN <<W(" *")>>
             ELSE visit_columns(select.columns))

visit_union(ua) ==
    Flatten([i \in 1..Len(ua.selects) |->
                <<Call("visit_select", ua.selects[i])>>
                \o (IF i < Len(ua.selects)
                    THEN <<W(" "), W(ua.types[i]), W(" ")>> ELSE <<>>)])

\* direction.unwrap_or("")
direction(o) == IF IsSome(o) THEN (IF Unwrap(o) = "Asc" THEN " ASC" ELSE " DESC") ELSE ""

Visitor_visit_ordering(ordering) ==
    JoinWith([k \in DOMAIN ordering |-> LET o == ordering[k] IN <<Call("visit_expression", o.value), W(direction(o.order))>>], ", ")

Visitor_visit_equals(left, right) ==
    <<Call("visit_expression", left), W(" = "), Call("visit_expression", right)>>
Visitor_visit_not_equals(left, right) ==
    <<Call("visit_expression", left), W(" <> "), Call("visit_expression", right)>>

\* ConditionTree::and / ConditionTree::or: an And (Or) takes one more operand,
\* a Single is unwrapped, any other tree becomes an operand itself.
Tree_and(tree, e) ==
    CASE tree.ct = "And" -> And(Append(tree.list, e))
      [] tree.ct = "Single" -> And(<<tree.list[1], e>>)
      [] OTHER -> And(<<TreeExpr(tree), e>>)
Tree_or(tree, e) ==
    CASE tree.ct = "Or" -> Or(Append(tree.list, e))
      [] tree.ct = "Single" -> Or(<<tree.list[1], e>>)
      [] OTHER -> Or(<<TreeExpr(tree), e>>)

\* Values::row_len
row_len(rows) == IF Len(rows) = 0 THEN 0 ELSE Len(rows[1])

\* Values::flatten_row: the last value of every row, None when a row is empty
flatten_row(rows) ==
    IF \E i \in 1..Len(rows) : Len(rows[i]) = 0
    THEN None
    ELSE Some([i \in 1..Len(rows) |-> rows[i][Len(rows[i])]])

Visitor_visit_multiple_tuple_comparison(left, right, negate) ==
    <<Call("visit_row", left), W(IF negate THEN " NOT IN " ELSE " IN "),
      Call("visit_values", right)>>

\* Compare::In / Compare::NotIn
visit_in(left, right, negate) ==
    LET lk == left.kind
        rk == right.kind
        op == IF negate THEN " NOT IN " ELSE " IN "
    IN CASE rk.k = "Row" /\ Len(rk.values) = 0 ->
                <<W(IF negate THEN "1=1" ELSE "1=0")>>
         [] lk.k = "Row" /\ rk.k = "Values" /\ row_len(rk.rows) = 0 ->
                <<W(IF negate THEN "1=1" ELSE "1=0")>>
         [] lk.k = "Row" /\ rk.k = "Values" /\ Len(lk.values) = 1 /\ row_len(rk.rows) = 1 ->
                IF IsNone(flatten_row(rk.rows))
                THEN <<Panic("called Option::unwrap() on a None value")>>
                ELSE <<Call("visit_expression", lk.values[1]), W(op),
                       Call("visit_row", Unwrap(flatten_row(rk.rows)))>>
         [] rk.k = "Parameterized" ->
                <<Call("visit_expression", left), W(IF negate THEN " <> " ELSE " = "),
                  Call("visit_parameterized", rk.value)>>
         [] lk.k = "Row" /\ rk.k = "Values" ->
                <<Call("visit_multiple_tuple_comparison",
                       [left |-> lk.values, right |-> rk.rows, negate |-> negate])>>
         [] OTHER ->
                <<Call("visit_expression", left), W(op), Call("visit_expression", right)>>

visit_compare(cmp) ==
    CASE cmp.c = "Equals" -> <<Call("visit_equals", cmp)>>
      [] cmp.c = "NotEquals" -> <<Call("visit_not_equals", cmp)>>
      [] cmp.c = "LessThan" ->
            <<Call("visit_expression", cmp.left), W(" < "), Call("visit_expression", cmp.right)>>
      [] cmp.c = "In" -> visit_in(cmp.left, cmp.right, FALSE)
      [] cmp.c = "NotIn" -> visit_in(cmp.left, cmp.right, TRUE)
      [] cmp.c \in {"JsonArrayContains", "JsonArrayBeginsWith", "JsonArrayEndsInto",
                    "JsonTypeEquals", "Matches"} -> <<Call("visit_json_or_search", cmp.c)>>

visit_join_data(data) ==
    <<Call("visit_table", [table |-> data.table, include_alias |-> TRUE]), W(" ON "),
      Call("visit_conditions", data.conditions)>>

visit_joins(joins) ==
    Flatten([i \in 1..Len(joins) |->
                <<W(IF joins[i].join = "Inner" THEN " INNER JOIN " ELSE " LEFT JOIN ")>>
                \o visit_join_data(joins[i].data)])

\* JoinData::on
JoinData_on(data, cond) ==
    [data EXCEPT !.conditions = IF @.ct = "NoCondition" THEN Single(cond)
                                ELSE Tree_and(@, TreeExpr(Single(cond)))]

----------------------------------------------------------------------------
(* Deviating variants of single operations.  Each property below has to    *)
(* tell the operation it is about from its variant.                        *)

\* a parameter list that grows at the front
push_front(params, value) == <<value>> \o params

\* placeholders numbered from zero
zero_based_substitution(chunks, params) == chunks \o <<"@P", Display(Len(params) - 1)>>

\* a visitor that inherits the flag of the build before it
kept_order_by_set(previous) == previous

\* OFFSET without the LIMIT -1 in front of it
bare_offset(limit, offset) ==
    (IF IsSome(limit) THEN <<W(" LIMIT "), Call("visit_parameterized", Unwrap(limit))>>
     ELSE <<>>)
    \o (IF IsSome(offset) THEN <<W(" OFFSET "), Call("visit_parameterized", Unwrap(offset))>>
        ELSE <<>>)

\* the tuple comparison left as a row constructor
row_constructor_comparison(left, right, negate) ==
    <<Call("visit_row", left), W(IF negate THEN " NOT IN " ELSE " IN "),
      Call("visit_values", right)>>

\* the equality written as it stands, rows included
equals_as_written(left, right) ==
    <<Call("visit_expression", left), W(" = "), Call("visit_expression", right)>>

----------------------------------------------------------------------------
(* Parameters and placeholders. *)

Postgres_add_parameter(params, value) == Append(params, value)
Sqlite_add_parameter(params, value) == Append(params, value)
Mssql_add_parameter(params, value) == Append(params, value)

add_parameter(params, value) ==
    CASE dialect = "Postgres" -> Postgres_add_parameter(params, value)
      [] dialect = "Sqlite" -> Sqlite_add_parameter(params, value)
      [] dialect = "Mssql" -> Mssql_add_parameter(params, value)

Postgres_parameter_substitution(chunks, params) ==
    chunks \o <<"$", Display(Len(params))>>
Sqlite_parameter_substitution(chunks, params) ==
    Append(chunks, "?")
Mssql_parameter_substitution(chunks, params) ==
    chunks \o <<"@P", Display(Len(params))>>

parameter_substitution(chunks, params) ==
    CASE dialect = "Postgres" -> Postgres_parameter_substitution(chunks, params)
      [] dialect = "Sqlite" -> Sqlite_parameter_substitution(chunks, params)
      [] dialect = "Mssql" -> Mssql_parameter_substitution(chunks, params)

\* the chunk that opens a placeholder in the text of the dialect
PlaceholderMark == CASE dialect = "Postgres" -> "$"
                     [] dialect = "Sqlite" -> "?"
                     [] dialect = "Mssql" -> "@P"

P(value) == Call("visit_parameterized", value)

----------------------------------------------------------------------------
(* Pagination. *)

Postgres_visit_limit_and_offset(limit, offset) ==
    CASE IsSome(limit) /\ IsSome(offset) ->
            <<W(" LIMIT "), P(Unwrap(limit)), W(" OFFSET "), P(Unwrap(offset))>>
      [] IsNone(limit) /\ IsSome(offset) -> <<W(" OFFSET "), P(Unwrap(offset))>>
      [] IsSome(limit) /\ IsNone(offset) -> <<W(" LIMIT "), P(Unwrap(limit))>>
      [] OTHER -> <<>>

Sqlite_visit_limit_and_offset(limit, offset) ==
    CASE IsSome(limit) /\ IsSome(offset) ->
            <<W(" LIMIT "), P(Unwrap(limit)), W(" OFFSET "), P(Unwrap(offset))>>
      [] IsNone(limit) /\ IsSome(offset) ->
            <<W(" LIMIT "), P(Value_integer(-1)), W(" OFFSET "), P(Unwrap(offset))>>
      [] IsSome(limit) /\ IsNone(offset) -> <<W(" LIMIT "), P(Unwrap(limit))>>
      [] OTHER -> <<>>

\* the closure add_ordering of Mssql::visit_limit_and_offset
add_ordering ==
    IF ~order_by_set
    THEN <<W(" ORDER BY "),
           Call("visit_ordering", <<[value |-> RawValue(Value_integer(1)), order |-> None]>>)>>
    ELSE <<>>

\* variant: MSSQL binds the limit before the offset
limit_before_offset(limit, offset) ==
    CASE IsSome(limit) /\ IsSome(offset) ->
            <<W(" OFFSET "), P(Unwrap(limit)), W(" ROWS FETCH NEXT "), P(Unwrap(offset)),
              W(" ROWS ONLY")>>
      [] OTHER -> <<>>

Mssql_visit_limit_and_offset(limit, offset) ==
    CASE IsSome(limit) /\ IsSome(offset) ->
            add_ordering
            \o <<W(" OFFSET "), P(Unwrap(offset)), W(" ROWS FETCH NEXT "), P(Unwrap(limit)),
                 W(" ROWS ONLY")>>
      [] IsNone(limit) /\ IsSome(offset)
         /\ (order_by_set
             \/ (IsSome(as_i64(Unwrap(offset))) /\ Unwrap(as_i64(Unwrap(offset))) > 0)) ->
            add_ordering \o <<W(" OFFSET "), P(Unwrap(offset)), W(" ROWS")>>
      [] IsSome(limit) /\ IsNone(offset) ->
            add_ordering
            \o <<W(" OFFSET "), P(Value_integer(0)), W(" ROWS FETCH NEXT "), P(Unwrap(limit)),
                 W(" ROWS ONLY")>>
      [] OTHER -> <<>>

visit_limit_and_offset(limit, offset) ==
    CASE dialect = "Postgres" -> Postgres_visit_limit_and_offset(limit, offset)
      [] dialect = "Sqlite" -> Sqlite_visit_limit_and_offset(limit, offset)
      [] dialect = "Mssql" -> Mssql_visit_limit_and_offset(limit, offset)

\* Mssql::visit_ordering ends with self.order_by_set = true
Mssql_visit_ordering(ordering) ==
    JoinWith([k \in DOMAIN ordering |-> LET o == ordering[k] IN <<Call("visit_expression", o.value), W(direction(o.order))>>], ", ")
    \o <<Call("set_order_by", TRUE)>>

visit_ordering(ordering) ==
    IF dialect = "Mssql" THEN Mssql_visit_ordering(ordering)
    ELSE Visitor_visit_ordering(ordering)

----------------------------------------------------------------------------
(* Raw values. *)

\* a float is carried as text: "NaN", "Infinity", "-Infinity" or its {:?} form
Value_double(t) == Value("Double", FALSE, 0, t)
Value_float(t) == Value("Float", FALSE, 0, t)

raw_float(v) ==
    CASE v.s = "NaN" -> "'NaN'"
      [] v.s = "Infinity" -> "'Infinity'"
      [] v.s = "-Infinity" -> "'-Infinity"
      [] OTHER -> v.s

\* TryFrom<Value> for MsValue: "Ok", "Err" (a conversion error), and for the
\* variants the match has no arm for, whatever the build makes of them
MsValue_try_from(v) ==
    CASE v.kind \in {"I8", "I16", "I32", "I64", "Float", "Double", "Boolean", "Text"} -> "Ok"
      [] v.kind \in {"U8", "U16", "U32", "U64", "Bytes", "Json", "Uuid", "PgInterval",
                     "PgMoney", "PgTimeTz", "IpNetwork", "BigDecimal", "Decimal",
                     "UtcDateTime", "LocalDateTime", "NaiveDateTime", "NaiveDate",
                     "NaiveTime"} -> "Err"
      [] OTHER -> ms_unlisted

\* variant: the raw value goes the way of a parameter
raw_as_parameter(v) == <<P(v)>>

Mssql_visit_raw_value(v) ==
    CASE v.kind \in {"I8", "I16", "I32", "I64"} ->
            <<W(IF v.null THEN "null" ELSE Display(v.i))>>
      [] v.kind \in {"Float", "Double"} -> <<W(IF v.null THEN "null" ELSE raw_float(v))>>
      [] v.kind = "Text" -> <<W(IF v.null THEN "null" ELSE "'" \o v.s \o "'")>>
      [] v.kind = "Boolean" -> <<W(IF v.null THEN "null" ELSE Display(v.i))>>
      [] OTHER -> IF MsValue_try_from(v) = "Err"
                  THEN <<Raise("ConversionError")>>
                  ELSE <<W("null")>>

Sqlite_visit_raw_value(v) ==
    CASE v.kind = "Integer" -> <<W(IF v.null THEN "null" ELSE Display(v.i))>>
      [] v.kind \in {"Text", "Char", "Xml"} ->
            <<W(IF v.null THEN "null" ELSE "'" \o v.s \o "'")>>
      [] v.kind = "Enum" -> <<W(IF v.null THEN "null" ELSE v.s)>>
      [] v.kind = "Boolean" ->
            <<W(IF v.null THEN "null" ELSE IF v.i = 1 THEN "true" ELSE "false")>>
      [] v.kind = "Bytes" ->
            <<W(IF v.null THEN "null" ELSE "x'" \o hex_encode(v.b) \o "'")>>
      [] v.kind \in {"Float", "Double"} -> <<W(IF v.null THEN "null" ELSE raw_float(v))>>
      [] v.kind = "Array" -> <<Raise("ConversionError")>>
      [] v.kind \in {"Uuid", "DateTime"} ->
            <<W(IF v.null THEN "null" ELSE "'" \o v.s \o "'")>>
      [] OTHER -> <<Panic("not yet implemented")>>

Postgres_visit_raw_value(v) ==
    CASE v.kind = "Integer" -> <<W(IF v.null THEN "null" ELSE Display(v.i))>>
      [] v.kind \in {"Text", "Char", "Xml"} ->
            <<W(IF v.null THEN "null" ELSE "'" \o v.s \o "'")>>
      [] v.kind = "Enum" -> <<W(IF v.null THEN "null" ELSE v.s)>>
      [] v.kind = "Boolean" ->
            <<W(IF v.null THEN "null" ELSE IF v.i = 1 THEN "true" ELSE "false")>>
      [] v.kind = "Bytes" ->
            <<W(IF v.null THEN "null" ELSE "E'" \o hex_encode(v.b) \o "'")>>
      [] v.kind \in {"Float", "Double"} -> <<W(IF v.null THEN "null" ELSE raw_float(v))>>
      [] v.kind \in {"Uuid", "DateTime"} ->
            <<W(IF v.null THEN "null" ELSE "'" \o v.s \o "'")>>

visit_raw_value(v) ==
    CASE dialect = "Postgres" -> Postgres_visit_raw_value(v)
      [] dialect = "Sqlite" -> Sqlite_visit_raw_value(v)
      [] dialect = "Mssql" -> Mssql_visit_raw_value(v)

----------------------------------------------------------------------------
(* Comparisons the dialects override. *)

\* MSSQL doesn't support tuples, we do AND/OR.
Mssql_visit_multiple_tuple_comparison(left, right, negate) ==
    LET left_len == Len(left)
        values_len == Len(right)
        \* left.values.zip(row.values): as many pairs as the shorter side has
        zipped(row) == IF Len(row) < left_len THEN Len(row) ELSE left_len
        group(row) ==
            surround_with("(", ")",
                Flatten([j \in 1..zipped(row) |->
                            <<Call("visit_expression", left[j]), W(" = "),
                              Call("visit_expression", row[j])>>
                            \o (IF j - 1 < left_len - 1 THEN <<W(" AND ")>> ELSE <<>>)]))
    IN (IF negate THEN <<W("NOT ")>> ELSE <<>>)
       \o surround_with("(", ")",
            Flatten([i \in 1..values_len |->
                        group(right[i])
                        \o (IF i - 1 < values_len - 1 THEN <<W(" OR ")>> ELSE <<>>)]))

\* SQLite writes a table of rows as (VALUES (..),(..))
Sqlite_visit_values(rows) ==
    surround_with("(VALUES ", ")", visit_rows(rows, ","))

visit_values(rows) ==
    IF dialect = "Sqlite" THEN Sqlite_visit_values(rows) ELSE Visitor_visit_values(rows)

visit_multiple_tuple_comparison(left, right, negate) ==
    IF dialect = "Mssql" THEN Mssql_visit_multiple_tuple_comparison(left, right, negate)
    ELSE Visitor_visit_multiple_tuple_comparison(left, right, negate)

\* Expression::from(kind), with the alias put back when there was one
rebuilt(e) == IF IsSome(e.alias) THEN Aliased(Expression(e.kind), Unwrap(e.alias))
              ELSE Expression(e.kind)

Mssql_visit_equals(left, right) ==
    IF left.kind.k = "Row" /\ right.kind.k = "Row"
    THEN <<Call("visit_multiple_tuple_comparison",
                [left |-> left.kind.values, right |-> <<right.kind.values>>,
                 negate |-> FALSE])>>
    ELSE <<Call("visit_expression", rebuilt(left)), W(" = "),
           Call("visit_expression", rebuilt(right))>>

Mssql_visit_not_equals(left, right) ==
    IF left.kind.k = "Row" /\ right.kind.k = "Row"
    THEN <<Call("visit_multiple_tuple_comparison",
                [left |-> left.kind.values, right |-> <<right.kind.values>>,
                 negate |-> TRUE])>>
    ELSE <<Call("visit_expression", rebuilt(left)), W(" <> "),
           Call("visit_expression", rebuilt(right))>>

\* Expression::is_json_value / is_xml_value
is_json_value(e) == e.kind.k = "Parameterized" /\ e.kind.value.kind = "Json"
is_xml_value(e) == e.kind.k = "Parameterized" /\ e.kind.value.kind = "Xml"

cast_for(e) == IF is_json_value(e) THEN "::jsonb"
               ELSE IF is_xml_value(e) THEN "::text" ELSE ""

\* variant: every operand gets the cast of its own kind
cast_own_side(left, right) ==
    <<Call("visit_expression", left), W(cast_for(left)), W(" = "),
      Call("visit_expression", right), W(cast_for(right))>>

Postgres_visit_equals(left, right) ==
    <<Call("visit_expression", left), W(cast_for(right)), W(" = "),
      Call("visit_expression", right), W(cast_for(left))>>

Postgres_visit_not_equals(left, right) ==
    <<Call("visit_expression", left), W(cast_for(right)), W(" <> "),
      Call("visit_expression", right), W(cast_for(left))>>

visit_equals(left, right) ==
    CASE dialect = "Postgres" -> Postgres_visit_equals(left, right)
      [] dialect = "Sqlite" -> Visitor_visit_equals(left, right)
      [] dialect = "Mssql" -> Mssql_visit_equals(left, right)

visit_not_equals(left, right) ==
    CASE dialect = "Postgres" -> Postgres_visit_not_equals(left, right)
      [] dialect = "Sqlite" -> Visitor_visit_not_equals(left, right)
      [] dialect = "Mssql" -> Mssql_visit_not_equals(left, right)

\* visit_json_extract, visit_json_array_contains / _begins_with / _ends_into,
\* visit_json_type_equals, visit_text_search, visit_matches on SQLite and MSSQL
Sqlite_visit_json_or_search(what) == <<Panic("not implemented: not yet supported on SQLite")>>
Mssql_visit_json_or_search(what) == <<Panic("not implemented: not yet supported on MSSQL")>>

visit_json_or_search(what) ==
    CASE dialect = "Sqlite" -> Sqlite_visit_json_or_search(what)
      [] dialect = "Mssql" -> Mssql_visit_json_or_search(what)

----------------------------------------------------------------------------
(* INSERT per dialect. *)

Sqlite_visit_insert(insert) ==
    LET cols == <<W(" (")>>
                \o JoinWith([k \in DOMAIN insert.columns |-> LET c == insert.columns[k] IN <<Call("visit_column", c)>>], ", ")
                \o <<W(")")>>
        kind == insert.values.kind
    IN <<W(IF IsSome(insert.on_conflict) THEN "INSERT OR IGNORE" ELSE "INSERT")>>
       \o (IF IsSome(insert.table)
           THEN <<W(" INTO "), Call("visit_table", [table |-> Unwrap(insert.table),
                                                    include_alias |-> TRUE])>>
           ELSE <<>>)
       \o (CASE kind.k = "Row" ->
                    IF Len(kind.values) = 0 THEN <<W(" DEFAULT VALUES")>>
                    ELSE cols \o <<W(" VALUES "), Call("visit_row", kind.values)>>
             [] kind.k = "Values" ->
                    cols \o <<W(" VALUES ")>> \o visit_rows(kind.rows, ", ")
             [] OTHER -> <<Call("visit_expression", insert.values)>>)
       \o (IF IsSome(insert.returning) /\ Len(Unwrap(insert.returning)) > 0
           THEN <<W(" RETURNING ")>>
                \o JoinWith([k \in DOMAIN Unwrap(insert.returning) |-> LET c == (Unwrap(insert.returning))[k] IN <<W(c.name)>>], ", ")
           ELSE <<>>)

Postgres_visit_insert(insert) ==
    LET cols == <<W(" (")>>
                \o JoinWith([k \in DOMAIN insert.columns |-> LET c == insert.columns[k] IN <<Call("visit_column", c)>>], ",")
                \o <<W(")")>>
        kind == insert.values.kind
    IN <<W("INSERT ")>>
       \o (IF IsSome(insert.table)
           THEN <<W("INTO "), Call("visit_table", [table |-> Unwrap(insert.table),
                                                   include_alias |-> TRUE])>>
           ELSE <<>>)
       \o (CASE kind.k = "Row" ->
                    IF Len(kind.values) = 0 THEN <<W(" DEFAULT VALUES")>>
                    ELSE cols \o <<W(" VALUES "), Call("visit_row", kind.values)>>
             [] kind.k = "Values" ->
                    cols \o <<W(" VALUES ")>> \o visit_rows(kind.rows, ", ")
             [] OTHER -> surround_with("(", ")", <<Call("visit_expression", insert.values)>>))
       \o (IF IsSome(insert.on_conflict) THEN <<W(" ON CONFLICT DO NOTHING")>> ELSE <<>>)
       \o (IF IsSome(insert.returning) /\ Len(Unwrap(insert.returning)) > 0
           THEN <<W(" RETURNING ")>>
                \o visit_columns([i \in 1..Len(Unwrap(insert.returning)) |->
                                    ColumnExpr(Unwrap(insert.returning)[i])])
           ELSE <<>>)

GENERATED_KEYS == "@generated_keys"

\* variant: OUTPUT names the columns as they are, not those of Inserted
output_own_columns(columns) ==
    <<W(" OUTPUT ")>>
    \o JoinWith([k \in DOMAIN columns |-> LET c == columns[k] IN <<Call("visit_column", c)>>], ",")
    \o <<W(" INTO "), W(GENERATED_KEYS)>>

Mssql_visit_returning(columns) ==
    LET inserted_table == Table("Inserted")
    IN <<W(" OUTPUT ")>>
       \o JoinWith([k \in DOMAIN columns |-> LET c == columns[k] IN <<Call("visit_column", Column_table(c, inserted_table))>>], ",")
       \o <<W(" INTO "), W(GENERATED_KEYS)>>

visit_type_family(type_family) ==
    CASE type_family = "Int" -> <<W("BIGINT")>>
      [] type_family = "Float" -> <<W("FLOAT(24)")>>
      [] type_family = "Double" -> <<W("FLOAT(53)")>>
      [] type_family = "Boolean" -> <<W("BIT")>>
      [] type_family = "Uuid" -> <<W("UNIQUEIDENTIFIER")>>
      [] type_family = "DateTime" -> <<W("DATETIMEOFFSET")>>
      [] type_family = "Text" -> <<W("NVARCHAR("), W("4000"), W(")")>>
      [] type_family = "Bytes" -> <<W("VARBINARY("), W("8000"), W(")")>>
      [] type_family = "Decimal" -> <<W("DECIMAL("), W("32,16"), W(")")>>

create_generated_keys(columns) ==
    <<W("DECLARE "), W(GENERATED_KEYS), W(" table")>>
    \o surround_with("(", ")",
         JoinWith([k \in DOMAIN columns |-> LET c == columns[k] IN <<Call("visit_column", c), W(" ")>> \o (IF IsSome(c.type_family) THEN visit_type_family(Unwrap(c.type_family)) ELSE <<W("NVARCHAR(255)")>>)], ","))

select_generated_keys(columns, target_table) ==
    LET t_table == Table("t")
        g_table == Table("g")
        on(acc, col) ==
            JoinData_on(acc, CompareExpr("Equals",
                                         ColumnExpr(Column_table(Column(col.name), t_table)),
                                         ColumnExpr(Column_table(Column(col.name), g_table))))
        RECURSIVE fold(_, _)
        fold(acc, i) == IF i > Len(columns) THEN acc ELSE fold(on(acc, columns[i]), i + 1)
        join == fold([table |-> [target_table EXCEPT !.alias = Some("t")],
                      conditions |-> NoCondition], 1)
    IN <<W("SELECT ")>>
       \o JoinWith([k \in DOMAIN columns |-> LET c == columns[k] IN <<Call("visit_column", Column_table(c, t_table))>>], ",")
       \o <<W(" FROM "), W(GENERATED_KEYS), W(" AS g")>>
       \o visit_joins(<<[join |-> "Inner", data |-> join]>>)
       \o <<W(" WHERE @@ROWCOUNT > 0")>>

Mssql_visit_insert(insert) ==
    LET kind == insert.values.kind
        returning == IF IsSome(insert.returning)
                     THEN Mssql_visit_returning(Unwrap(insert.returning)) ELSE <<>>
        cols == <<W(" "), Call("visit_row", [i \in 1..Len(insert.columns) |->
                                                ColumnExpr(insert.columns[i])])>>
    IN (IF IsSome(insert.returning)
        THEN create_generated_keys(Unwrap(insert.returning)) \o <<W(" ")>> ELSE <<>>)
       \o <<W("INSERT")>>
       \o (IF IsSome(insert.table)
           THEN <<W(" INTO "), Call("visit_table", [table |-> Unwrap(insert.table),
                                                    include_alias |-> TRUE])>>
           ELSE <<>>)
       \o (CASE kind.k = "Row" ->
                    IF Len(kind.values) = 0 THEN returning \o <<W(" DEFAULT VALUES")>>
                    ELSE cols \o returning \o <<W(" VALUES "), Call("visit_row", kind.values)>>
             [] kind.k = "Values" ->
                    cols \o returning \o <<W(" VALUES ")>> \o visit_rows(kind.rows, ",")
             [] OTHER -> surround_with("(", ")", <<Call("visit_expression", insert.values)>>))
       \o (IF IsSome(insert.returning)
           THEN IF IsNone(insert.table)
                THEN <<Panic("called Option::unwrap() on a None value")>>
                ELSE <<W(" ")>>
                     \o select_generated_keys(Unwrap(insert.returning), Unwrap(insert.table))
           ELSE <<>>)

\* Visitor::visit_update: the assignments are the columns zipped with the values
Min(a, b) == IF a <= b THEN a ELSE b
visit_update(update) ==
    LET pairs == [i \in 1..Min(Len(update.columns), Len(update.values)) |->
                    <<Call("visit_column", update.columns[i]), W(" = "),
                      Call("visit_expression", update.values[i])>>]
    IN <<W("UPDATE "), Call("visit_table", [table |-> update.table, include_alias |-> TRUE]),
         W(" SET ")>>
       \o JoinWith(pairs, ", ")
       \o (IF IsSome(update.conditions)
           THEN <<W(" WHERE "), Call("visit_conditions", Unwrap(update.conditions))>>
           ELSE <<>>)

visit_insert(insert) ==
    CASE dialect = "Postgres" -> Postgres_visit_insert(insert)
      [] dialect = "Sqlite" -> Sqlite_visit_insert(insert)
      [] dialect = "Mssql" -> Mssql_visit_insert(insert)

----------------------------------------------------------------------------
(* ON CONFLICT DO NOTHING as MERGE. *)

Ok(x) == [tag |-> "Ok", val |-> x]
Err(kind) == [tag |-> "Err", val |-> kind]
Panicked(msg) == [tag |-> "Panic", val |-> msg]

Contains(columns, c) == \E i \in 1..Len(columns) : Column_eq(columns[i], c)

\* the closure join_cond of Table::join_conditions: Ok(Some(cond)), Ok(None), Err
join_cond(inserted_columns, column) ==
    IF ~Contains(inserted_columns, column)
    THEN IF IsNone(column.default) THEN Err("ConversionError")
         ELSE IF Unwrap(column.default).dv = "Provided"
              THEN Ok(Some(Single(CompareExpr("Equals", ColumnExpr(column),
                                              Parameterized(Unwrap(column.default).value)))))
              ELSE Ok(None)
    ELSE Ok(Some(Single(CompareExpr("Equals",
                                    ColumnExpr(Column_table(column, Table("dual"))),
                                    ColumnExpr(column)))))

\* one index definition: the AND of the join conditions of its columns
RECURSIVE index_condition(_, _, _, _)
index_condition(inserted_columns, cols, i, sub_result) ==
    IF i > Len(cols) THEN Ok(sub_result)
    ELSE LET r == join_cond(inserted_columns, cols[i])
         IN IF r.tag = "Err" THEN r
            ELSE LET right_cond == IF IsSome(r.val) THEN Unwrap(r.val)
                                   ELSE NegativeCondition
                 IN index_condition(inserted_columns, cols, i + 1,
                        IF sub_result.ct = "NoCondition" THEN right_cond
                        ELSE Tree_and(sub_result, TreeExpr(right_cond)))

\* Table::join_conditions: the OR over the unique indexes of the table
RECURSIVE join_conditions_from(_, _, _, _)
join_conditions_from(indexes, inserted_columns, i, result) ==
    IF i > Len(indexes) THEN Ok(result)
    ELSE LET index == indexes[i]
             one == join_cond(inserted_columns, index.cols[1])
             all == index_condition(inserted_columns, index.cols, 1, NoCondition)
             or(cond) == IF result.ct = "NegativeCondition" THEN cond
                         ELSE Tree_or(result, TreeExpr(cond))
         IN IF index.idx = "Single"
            THEN IF one.tag = "Err" THEN one
                 ELSE join_conditions_from(indexes, inserted_columns, i + 1,
                          IF IsSome(one.val) THEN or(Unwrap(one.val)) ELSE result)
            ELSE IF all.tag = "Err" THEN all
                 ELSE join_conditions_from(indexes, inserted_columns, i + 1, or(all.val))

join_conditions(table, inserted_columns) ==
    join_conditions_from(table.index_definitions, inserted_columns, 1, NegativeCondition)

\* columns.iter().zip(row).fold(Select::default(), |q, (col, val)| q.value(val.alias(col.name)))
RECURSIVE cols_vals(_, _, _, _)
cols_vals(columns, row, i, select) ==
    IF i > Len(columns) \/ i > Len(row) THEN select
    ELSE cols_vals(columns, row, i + 1,
                   Select_value(select, Aliased(row[i], columns[i].name)))

\* Query::into_using(alias, columns)
into_using(base_query, as_table, columns) ==
    [base_query |-> base_query, as_table |-> as_table, columns |-> columns,
     on_conditions |-> NoCondition]

\* variants of Using::on: one that keeps the first operand of the conditions
\* only, one that takes no conditions, one that drops the constant-false terms
on_first_operand(using, conditions) ==
    [using EXCEPT !.on_conditions =
        IF conditions.ct \in {"And", "Or"} THEN Single(conditions.list[1]) ELSE conditions]
on_nothing(using, conditions) == using
RECURSIVE without_negatives(_)
without_negatives(tree) ==
    IF tree.ct = "NegativeCondition" THEN NoCondition
    ELSE [tree EXCEPT !.list =
            [i \in 1..Len(tree.list) |->
                IF tree.list[i].kind.k = "ConditionTree"
                THEN TreeExpr(without_negatives(tree.list[i].kind.tree))
                ELSE tree.list[i]]]
on_without_negatives(using, conditions) ==
    [using EXCEPT !.on_conditions = without_negatives(conditions)]

\* Using::on
Using_on(using, conditions) == [using EXCEPT !.on_conditions = conditions]

\* impl TryFrom<Insert> for Merge
Merge_try_from(insert) ==
    LET table == Unwrap(insert.table)
        columns == insert.columns
        kind == insert.values.kind
        rows == kind.rows
        \* rows.pop(): the last row comes first, the others follow in order
        popped == rows[Len(rows)]
        rest == SubSeq(rows, 1, Len(rows) - 1)
        base ==
            CASE kind.k = "Row" -> Query_Select(cols_vals(columns, kind.values, 1, Select_default))
              [] kind.k = "Values" ->
                    Query_Union(Union(
                        <<cols_vals(columns, popped, 1, Select_default)>>
                        \o [i \in 1..Len(rest) |-> cols_vals(columns, rest[i], 1, Select_default)],
                        [i \in 1..Len(rest) |-> "UNION ALL"]))
              [] kind.k = "Selection" -> Query_Select(kind.selection)
        bare_columns == [i \in 1..Len(columns) |-> into_bare(columns[i])]
        joined == join_conditions(table, columns)
        using == Using_on(into_using(base, Table("dual"), bare_columns), joined.val)
        dual_columns == [i \in 1..Len(columns) |->
                            ColumnExpr(Column_table(columns[i], Table("Dual")))]
        not_matched == Insert(None, bare_columns, ValuesExpr(<<dual_columns>>), None, None)
    IN IF IsNone(insert.table) THEN Err("ConversionError")
       ELSE IF Len(table.index_definitions) = 0 THEN Err("ConversionError")
       ELSE IF kind.k = "Values" /\ Len(rows) = 0
            THEN Panicked("called Option::unwrap() on a None value")
       ELSE IF kind.k \notin {"Row", "Values", "Selection"} THEN Err("ConversionError")
       ELSE IF joined.tag = "Err" THEN Panicked("called Result::unwrap() on an Err value")
       ELSE Ok([table |-> table, using |-> using,
                when_not_matched |-> Some(Query_Insert(not_matched)),
                returning |-> insert.returning])

Mssql_visit_merge(merge) ==
    (IF IsSome(merge.returning)
     THEN create_generated_keys(Unwrap(merge.returning)) \o <<W(" ")>> ELSE <<>>)
    \o <<W("MERGE INTO "),
         Call("visit_table", [table |-> merge.table, include_alias |-> TRUE]),
         W(" USING ")>>
    \o surround_with("(", ")", <<Call("visit_query", merge.using.base_query)>>)
    \o <<W(" AS "),
         Call("visit_table", [table |-> merge.using.as_table, include_alias |-> FALSE]),
         W(" "),
         Call("visit_row", [i \in 1..Len(merge.using.columns) |->
                                ColumnExpr(merge.using.columns[i])]),
         W(" ON "),
         Call("visit_conditions", merge.using.on_conditions)>>
    \o (IF IsSome(merge.when_not_matched)
        THEN <<W(" WHEN NOT MATCHED THEN "),
               Call("visit_query", Unwrap(merge.when_not_matched))>>
        ELSE <<>>)
    \o (IF IsSome(merge.returning)
        THEN Mssql_visit_returning(Unwrap(merge.returning)) \o <<W("; ")>>
             \o select_generated_keys(Unwrap(merge.returning), merge.table)
        ELSE <<W(";")>>)

----------------------------------------------------------------------------
(* Compatibility modifications and visit_query. *)

\* Select::and_where
and_where(select, e) ==
    [select EXCEPT !.conditions = IF IsNone(@) THEN Some(Single(e))
                                  ELSE Some(Tree_and(Unwrap(@), e))]

\* Select::named_selection: the names the columns of a select are known by
named_selection(select) ==
    [i \in 1..Len(select.columns) |->
        IF IsSome(select.columns[i].alias) THEN Unwrap(select.columns[i].alias)
        ELSE IF select.columns[i].kind.k = "Column" THEN select.columns[i].kind.column.name
        ELSE ""]

\* the comparison that replaces  Row(cols) [NOT] IN (select): the first column
\* against the first column of the table expression, the others correlated
cte_comparison(c, cols, names, ident) ==
    LET RECURSIVE correlate(_, _)
        correlate(sel, i) ==
            IF i > Len(cols) \/ i > Len(names) THEN sel
            ELSE correlate(and_where(sel, CompareExpr("Equals", ColumnExpr(Column(names[i])),
                                                      cols[i])), i + 1)
        base_select == Select_value(Select_from_table(Table(ident)),
                                    ColumnExpr(Column(names[1])))
    IN [c |-> c, left |-> cols[1], right |-> SelectionExpr(correlate(base_select, 2))]

is_tuple_select(e) ==
    /\ e.kind.k = "Compare"
    /\ e.kind.compare.c \in {"In", "NotIn"}
    /\ e.kind.compare.left.kind.k = "Row"
    /\ e.kind.compare.right.kind.k = "Selection"

\* Expression::convert_tuple_selects_to_ctes over the operands of a tree, left
\* to right, threading the counter of the table expressions
RECURSIVE convert_exprs(_, _, _, _, _)
RECURSIVE convert_tree(_, _)
convert_tree(tree, level) ==
    IF tree.ct \in {"And", "Or", "Not", "Single"}
    THEN LET r == convert_exprs(tree.list, 1, level, <<>>, <<>>)
         IN [tree |-> [tree EXCEPT !.list = r.exprs], ctes |-> r.ctes, level |-> r.level]
    ELSE [tree |-> tree, ctes |-> <<>>, level |-> level]
convert_exprs(es, i, level, done, ctes) ==
    IF i > Len(es) THEN [exprs |-> done, ctes |-> ctes, level |-> level]
    ELSE LET e == es[i]
         IN CASE is_tuple_select(e) ->
                    LET cmp == e.kind.compare
                        ident == "cte_" \o Display(level)
                        sel == cmp.right.kind.selection
                        cte == [identifier |-> ident, selection |-> sel]
                        new == cte_comparison(cmp.c, cmp.left.kind.values,
                                              named_selection(sel), ident)
                    IN convert_exprs(es, i + 1, level + 1,
                                     Append(done, [e EXCEPT !.kind.compare = new]),
                                     Append(ctes, cte))
              [] e.kind.k = "ConditionTree" ->
                    LET r == convert_tree(e.kind.tree, level)
                    IN convert_exprs(es, i + 1, r.level,
                                     Append(done, [e EXCEPT !.kind.tree = r.tree]),
                                     ctes \o r.ctes)
              [] OTHER -> convert_exprs(es, i + 1, level, Append(done, e), ctes)

\* Select::convert_tuple_selects_to_ctes(true, &mut 0)
convert_tuple_selects_to_ctes(select) ==
    IF IsNone(select.conditions) THEN select
    ELSE LET r == convert_tree(Unwrap(select.conditions), 0)
         IN [select EXCEPT !.conditions = Some(r.tree), !.ctes = @ \o r.ctes]

\* variants of compatibility_modifications: one that changes nothing, one that
\* writes the table expressions a Select already has once more
unmodified(q) == Ok(q)
hoisted_over(q) ==
    IF q.q = "Select"
    THEN LET sel == convert_tuple_selects_to_ctes(q.node)
         IN Ok(Query_Select([sel EXCEPT !.ctes = q.node.ctes \o @]))
    ELSE Ok(q)

Mssql_compatibility_modifications(q) ==
    CASE q.q = "Select" -> Ok(Query_Select(convert_tuple_selects_to_ctes(q.node)))
      [] q.q = "Insert" ->
            IF IsSome(q.node.on_conflict)
            THEN LET m == Merge_try_from(q.node)
                 IN CASE m.tag = "Ok" -> Ok(Query_Merge(m.val))
                      [] m.tag = "Err" -> Panicked("called Result::unwrap() on an Err value")
                      [] m.tag = "Panic" -> m
            ELSE Ok(q)
      [] OTHER -> Ok(q)

\* only MSSQL overrides the default, which hands the query back
compatibility_modifications(q) ==
    IF dialect = "Mssql" THEN Mssql_compatibility_modifications(q) ELSE Ok(q)

visit_query(q) ==
    LET m == compatibility_modifications(q)
    IN IF m.tag = "Panic" THEN <<Panic(m.val)>>
       ELSE CASE m.val.q = "Select" -> <<Call("visit_select", m.val.node)>>
              [] m.val.q = "Insert" -> <<Call("visit_insert", m.val.node)>>
              [] m.val.q = "Union" -> <<Call("visit_union", m.val.node)>>
              [] m.val.q = "Merge" -> <<Call("visit_merge", m.val.node)>>
              [] m.val.q = "Update" -> <<Call("visit_update", m.val.node)>>

\* the body of the visit_* method a call on the stack names
Body(c) ==
    CASE c.op = "visit_query" -> visit_query(c.arg)
      [] c.op = "visit_select" -> visit_select(c.arg)
      [] c.op = "visit_union" -> visit_union(c.arg)
      [] c.op = "visit_insert" -> visit_insert(c.arg)
      [] c.op = "visit_update" -> visit_update(c.arg)
      [] c.op = "visit_merge" -> Mssql_visit_merge(c.arg)
      [] c.op = "visit_expression" -> visit_expression(c.arg)
      [] c.op = "visit_conditions" -> visit_conditions(c.arg)
      [] c.op = "visit_compare" -> visit_compare(c.arg)
      [] c.op = "visit_equals" -> visit_equals(c.arg.left, c.arg.right)
      [] c.op = "visit_not_equals" -> visit_not_equals(c.arg.left, c.arg.right)
      [] c.op = "visit_multiple_tuple_comparison" ->
            visit_multiple_tuple_comparison(c.arg.left, c.arg.right, c.arg.negate)
      [] c.op = "visit_row" -> visit_row(c.arg)
      [] c.op = "visit_values" -> visit_values(c.arg)
      [] c.op = "visit_table" -> visit_table(c.arg.table, c.arg.include_alias)
      [] c.op = "visit_column" -> visit_column(c.arg)
      [] c.op = "visit_raw_value" -> visit_raw_value(c.arg)
      [] c.op = "visit_ordering" -> visit_ordering(c.arg)
      [] c.op = "visit_limit_and_offset" -> visit_limit_and_offset(c.arg.limit, c.arg.offset)
      [] c.op = "visit_json_or_search" -> visit_json_or_search(c.arg)

----------------------------------------------------------------------------
(* The queries the harness builds. *)

V(n) == Value_integer(n)
T == Table("test")
Col(n) == ColumnExpr(ColumnOf("test", n))
Id(j) == Col("id" \o Display(j))
order_by(e) == [value |-> e, order |-> None]

Limits == {None, Some(V(10))}
Offsets == {None, Some(V(0)), Some(V(5))}

\* Select::from_table(T) [.order_by(a)] [.limit(l)] [.offset(o)]
Paged(ord, lim, off) ==
    [Select_from_table(T) EXCEPT !.ordering = IF ord THEN <<order_by(Col("a"))>> ELSE <<>>,
                                 !.limit = lim, !.offset = off]
PagedSelects == {Paged(o, l, f) : o \in BOOLEAN, l \in Limits, f \in Offsets}
\* the same with a value in front and a condition: SELECT ?, t.* ... WHERE a < ?
PagedAmong(ord, lim, off) ==
    [Paged(ord, lim, off)
        EXCEPT !.columns = <<Parameterized(Value_text("v"))>>,
               !.conditions = Some(Single(CompareExpr("LessThan", ColumnExpr(ColumnOf("test", "a")),
                                                      Parameterized(Value_integer(3)))))]
PagedAmongOthers == {PagedAmong(o, l, f) : o \in BOOLEAN, l \in Limits, f \in Offsets}

\* a union of two selects, and a select from a derived table
UnionMembers == {Paged(o, l, None) : o \in BOOLEAN, l \in Limits}
Unions == {Union(<<a, b>>, <<"UNION ALL">>) : a \in UnionMembers, b \in UnionMembers}
Derived == {[Select_from_table(TableQuery(Paged(TRUE, Some(V(10)), None), Some("sub")))
                EXCEPT !.limit = l] : l \in Limits}

ValueSelects ==
    {Select_value(Select_default, Parameterized(V(1))),
     Select_value(Select_value(Select_default, Parameterized(V(1))), Parameterized(V(2))),
     Select_value(Select_default, Aliased(Parameterized(V(1)), "test"))}

\* floats that are no number, and one that is; f32 and f64
FloatTexts == {"NaN", "Infinity", "-Infinity", "1.3"}
RawFloats == {Value_double(t) : t \in FloatTexts} \cup {Value_float(t) : t \in FloatTexts}
\* bytes, booleans, a UUID, a time, and the nulls of some kinds
A_UUID == "67e55044-10b1-426f-9247-bb680e5fe0c8"
A_TIME == "2021-03-04T05:06:07+00:00"
RawLiterals ==
    {Value_bytes(<<1, 2, 3>>), Value_bytes(<<171, 15>>), Value_bytes(<<>>),
     Value_boolean(FALSE), Value_uuid(A_UUID), Value_datetime(A_TIME)}
    \cup {Value_null(k) : k \in {"Bytes", "Boolean", "Double", "Uuid"}}

\* two raw values, and raw values around one that is not raw
TwoRaw ==
    Select_value(Select_value(Select_default, RawValue(Value_text("x"))),
                 RawValue(Value_boolean(TRUE)))
RawAround ==
    Select_value(Select_value(TwoRaw, Parameterized(Value_integer(2))),
                 RawValue(Value_double("1.3")))
RawMixtures == {TwoRaw, RawAround}

\* raw literals; the kinds a dialect's visit_raw_value has no arm for are only
\* handed to the dialects that have a catch-all arm
RawValues == {V(1), Value_text("x"), Value_boolean(TRUE), Value_double("-Infinity"),
              Value_null("Text")}
             \cup RawFloats \cup RawLiterals
RawValuesCatchAll == {Value("I32", FALSE, 7, ""), Value("Array", FALSE, 0, "")}
RawSelects(values) == {Select_value(Select_default, RawValue(v)) : v \in values}

\* Select::from_table(T).so_that(c)
Where(c) == [Select_from_table(T) EXCEPT !.conditions = Some(Single(c))]

IdRow(w) == [j \in 1..w |-> Id(j)]
ParamRow(w, r) == [j \in 1..w |-> Parameterized(V((r - 1) * w + j))]
\* Row(id1..idw).in_selection(values!(r1..rm)) / not_in_selection
TupleIn(w, m, neg) ==
    CompareExpr(IF neg THEN "NotIn" ELSE "In", RowExpr(IdRow(w)),
                ValuesExpr([r \in 1..m |-> ParamRow(w, r)]))
\* Row(id1, id2).in_selection(values) with rows of the widths given, no row
\* as wide as the left one unless its width is 2
RaggedWidths == {<<1>>, <<3>>, <<1, 2>>, <<2, 1>>, <<3, 2>>, <<1, 3>>}
RaggedRow(width, r) == [j \in 1..width |-> Parameterized(V(10 * r + j))]
RaggedIn(widths, neg) ==
    CompareExpr(IF neg THEN "NotIn" ELSE "In", RowExpr(IdRow(2)),
                ValuesExpr([r \in 1..Len(widths) |-> RaggedRow(widths[r], r)]))
\* Row(id1..idw).equals(Row(p1..pw)) / not_equals
RowEq(w, neg) ==
    CompareExpr(IF neg THEN "NotEquals" ELSE "Equals", RowExpr(IdRow(w)),
                RowExpr(ParamRow(w, 1)))
\* a.equals(1) / a.not_equals(1), either side possibly aliased
PlainEq(neg, la, ra) ==
    CompareExpr(IF neg THEN "NotEquals" ELSE "Equals",
                IF la THEN Aliased(Col("a"), "l") ELSE Col("a"),
                IF ra THEN Aliased(Parameterized(V(1)), "r") ELSE Parameterized(V(1)))
\* Row(x, y).in_selection(SELECT 1 AS a, 2 AS b)
TupleInSelect(neg) ==
    CompareExpr(IF neg THEN "NotIn" ELSE "In", RowExpr(<<Col("x"), Col("y")>>),
                SelectionExpr(Select_value(Select_value(Select_default,
                                  Aliased(Parameterized(V(1)), "a")),
                                  Aliased(Parameterized(V(2)), "b"))))

\* l = r and l <> r over a column, a JSON value, an XML value and a number
Value_json(t) == Value("Json", FALSE, 0, t)
Value_xml(t) == Value("Xml", FALSE, 0, t)
CastOperands ==
    {Col("j"), Parameterized(Value_json("{}")), Parameterized(Value_xml("<a/>")),
     Parameterized(V(1))}
CastCompares ==
    {CompareExpr(c, l, r) : c \in {"Equals", "NotEquals"}, l \in CastOperands,
                            r \in CastOperands}

Conditions ==
    {TupleIn(w, m, neg) : w \in 1..MaxWidth, m \in 0..MaxRows, neg \in BOOLEAN}
    \cup {RaggedIn(ws, neg) : ws \in RaggedWidths, neg \in BOOLEAN}
    \cup {RowEq(w, neg) : w \in 1..MaxWidth, neg \in BOOLEAN}
    \cup {PlainEq(neg, la, ra) : neg \in BOOLEAN, la \in BOOLEAN, ra \in BOOLEAN}
    \cup {TupleInSelect(neg) : neg \in BOOLEAN}
    \cup {TreeExpr(And(<<PlainEq(FALSE, FALSE, FALSE), TupleIn(MaxWidth, 1, FALSE)>>)),
          CompareExpr("LessThan", Col("a"), Parameterized(V(3)))}
    \cup CastCompares

\* the JSON and full-text operations
JsonCompares == {"JsonArrayContains", "JsonArrayBeginsWith", "JsonArrayEndsInto",
                 "JsonTypeEquals", "Matches"}
JsonFunctions == {"JsonExtract", "TextSearch"}
Unsupported ==
    {Where(CompareExpr(c, Col("j"), Parameterized(Value_text("x")))) : c \in JsonCompares}
    \cup {Select_value(Select_from_table(T), Expression([k |-> "Function", fn |-> f])) :
            f \in JsonFunctions}

\* inserts into foo(bar, wtf)
Foo == Table("foo")
Foo_bar == ColumnOf("foo", "bar")
Foo_wtf == ColumnOf("foo", "wtf")
InsertTables ==
    {None, Some(Foo),
     Some(add_unique_index(Foo, IndexSingle(Foo_bar))),
     Some(add_unique_index(Foo, IndexSingle(WithDefault(ColumnOf("foo", "id"),
                                                        Value_text("purr"))))),
     Some(add_unique_index(Foo, IndexSingle(ColumnOf("foo", "id"))))}
TextRow(r) == <<Parameterized(Value_text("lol" \o Display(r))),
                Parameterized(Value_text("meow" \o Display(r)))>>
InsertValues ==
    {RowExpr(TextRow(1))} \cup {ValuesExpr([r \in 1..m |-> TextRow(r)]) : m \in 0..MaxRows}
OnConflicts == {None, Some("DoNothing")}
Returnings == {None, Some(<<>>), Some(<<Foo_bar>>), Some(<<Foo_wtf, Foo_bar>>)}
Inserts ==
    {Insert(t, <<Foo_bar, Foo_wtf>>, v, c, r) :
        t \in InsertTables, v \in InsertValues, c \in OnConflicts, r \in Returnings}

\* tables of foo with several unique indexes, a static default (purr) or a
\* database-generated value on some of their columns
Foo_lol == ColumnOf("foo", "lol")
Foo_omg == ColumnOf("foo", "omg")
Purr(c) == WithDefault(c, Value_text("purr"))
Indexed(indexes) == [Foo EXCEPT !.index_definitions = indexes]
ConflictTables ==
    {Indexed(<<IndexSingle(Foo_bar), IndexSingle(Foo_wtf)>>),
     Indexed(<<IndexSingle(Foo_wtf), IndexSingle(Foo_bar)>>),
     Indexed(<<IndexSingle(Purr(Foo_bar)), IndexSingle(Foo_wtf)>>),
     Indexed(<<IndexSingle(Purr(Foo_bar)), IndexSingle(WithGenerated(Foo_lol)),
               IndexSingle(Foo_wtf)>>),
     Indexed(<<IndexSingle(WithGenerated(Foo_lol))>>),
     Indexed(<<IndexCompound(<<Foo_bar, Foo_wtf>>)>>),
     Indexed(<<IndexCompound(<<Purr(Foo_bar), Foo_wtf>>)>>),
     Indexed(<<IndexCompound(<<Purr(Foo_bar), Foo_wtf>>),
               IndexCompound(<<WithGenerated(Foo_omg), Foo_lol>>)>>)}
\* the columns an insert gives a value to, with the text it gives
ConflictColumns == {<<Foo_bar, Foo_wtf>>, <<Foo_wtf>>, <<Foo_wtf, Foo_lol>>}
TextOf(c) == CASE c.name = "bar" -> "lol" [] c.name = "wtf" -> "meow" [] OTHER -> "hiss"
\* Insert::single_into(table).value(c1, t1)...on_conflict(DoNothing)
SingleInto(table, columns) ==
    Insert(Some(table), columns,
           RowExpr([i \in 1..Len(columns) |-> Parameterized(Value_text(TextOf(columns[i])))]),
           Some("DoNothing"), None)
ConflictInserts == {SingleInto(t, cs) : t \in ConflictTables, cs \in ConflictColumns}

\* Row(x, y).in_selection(SELECT 10i+1 AS a<i>, 10i+2 AS b<i>) / not_in_selection
Inner(i) ==
    Select_value(Select_value(Select_default,
                     Aliased(Parameterized(V(10 * i + 1)), "a" \o Display(i))),
                     Aliased(Parameterized(V(10 * i + 2)), "b" \o Display(i)))
Tsel(i, neg) ==
    CompareExpr(IF neg THEN "NotIn" ELSE "In", RowExpr(<<Col("x"), Col("y")>>),
                SelectionExpr(Inner(i)))
Eq(name, t) == CompareExpr("Equals", Col(name), Parameterized(Value_text(t)))
\* condition trees with zero to three such predicates at several depths
HoistTrees ==
    {Single(Tsel(0, FALSE)),
     Not(Tsel(0, FALSE)),
     And(<<Eq("y", "bar"), Eq("z", "foo"), Tsel(0, FALSE)>>),
     Or(<<Eq("y", "bar"), TreeExpr(And(<<Eq("z", "foo"), Tsel(0, FALSE)>>))>>),
     And(<<Tsel(0, FALSE), Tsel(1, TRUE)>>),
     And(<<Tsel(1, FALSE), Eq("z", "foo"), Tsel(0, TRUE)>>),
     Or(<<TreeExpr(Not(Eq("y", "bar"))), Tsel(0, TRUE)>>),
     And(<<Tsel(0, FALSE),
           TreeExpr(Or(<<Tsel(1, TRUE), TreeExpr(Not(Tsel(2, FALSE)))>>)),
           Eq("z", "foo")>>),
     And(<<Eq("y", "bar"), Eq("z", "foo")>>)}
SoThat(tree) == [Select_from_table(T) EXCEPT !.conditions = Some(tree)]
HoistSelects == {SoThat(tree) : tree \in HoistTrees}

\* condition trees over the comparisons a, b, c that differ in their grouping
Atom(n) == CompareExpr("LessThan", Col(n), Col("k"))
Node(op, es) == [ct |-> op, list |-> es]
Ops == {"And", "Or"}
GroupingTrees ==
    {Single(Atom("a")), Not(Atom("a"))}
    \cup {Node(o, <<Atom("a"), Atom("b")>>) : o \in Ops}
    \cup {Node(o, <<Atom("a"), Atom("b"), Atom("c")>>) : o \in Ops}
    \cup {Node(o, <<Atom("a"), TreeExpr(Single(Atom("b")))>>) : o \in Ops}
    \cup {Node(o, <<TreeExpr(Not(Atom("a"))), Atom("b")>>) : o \in Ops}
    \cup {Not(TreeExpr(Node(o, <<Atom("a"), Atom("b")>>))) : o \in Ops}
    \cup {Node(o, <<Atom("a"), TreeExpr(Node(p, <<Atom("b"), Atom("c")>>))>>) :
            o \in Ops, p \in Ops}
    \cup {Node(o, <<TreeExpr(Node(p, <<Atom("a"), Atom("b")>>)), Atom("c")>>) :
            o \in Ops, p \in Ops}
    \cup {Node(o, <<Atom("a"), TreeExpr(Not(TreeExpr(Node(p, <<Atom("b"), Atom("c")>>))))>>) :
            o \in Ops, p \in Ops}
    \cup {Not(TreeExpr(Node(o, <<TreeExpr(Node(p, <<Atom("a"), Atom("b")>>)), Atom("c")>>))) :
            o \in Ops, p \in Ops}
GroupingSelects == {SoThat(tree) : tree \in GroupingTrees}

Queries ==
    {Query_Select(sel) : sel \in PagedSelects \cup PagedAmongOthers \cup Derived \cup ValueSelects \cup HoistSelects
                                 \cup GroupingSelects}
    \cup {Query_Select(Where(c)) : c \in Conditions}
    \cup {Query_Union(u) : u \in Unions}
    \cup {Query_Insert(i) : i \in Inserts \cup ConflictInserts}

\* the JSON and full-text operations are only handed to SQLite and MSSQL
Inputs ==
    {[dialect |-> d, query |-> q] : d \in Dialects, q \in Queries}
    \cup {[dialect |-> d, query |-> Query_Select(sel)] :
            d \in Dialects, sel \in RawSelects(RawValues) \cup RawMixtures}
    \cup {[dialect |-> d, query |-> Query_Select(sel)] :
            d \in {"Sqlite", "Mssql"}, sel \in Unsupported \cup RawSelects(RawValuesCatchAll)}

(* databases: binding a Value to a statement of a driver. *)

Drivers == {"postgres", "mysql", "mssql", "sqlite"}
\* the driver of the database a visitor belongs to (HasVisitor)
DriverOf(d) == CASE d = "Postgres" -> "postgres" [] d = "Sqlite" -> "sqlite" [] d = "Mssql" -> "mssql"

\* the variants the match of try_bind_value! and of the TryFrom impls name
ListedKinds ==
    {"I8", "I16", "I32", "I64", "U8", "U16", "U32", "U64", "Float", "Double", "Boolean",
     "Text", "Bytes", "Json", "Uuid", "PgInterval", "PgMoney", "PgTimeTz", "IpNetwork",
     "BigDecimal", "Decimal", "UtcDateTime", "LocalDateTime", "NaiveDateTime", "NaiveDate",
     "NaiveTime"}
\* the variants of enum Value that no arm of them names
UnlistedKinds ==
    {"Integer", "Enum", "Char", "Array", "Numeric", "Xml", "DateTime", "Date", "Time",
     "PgRange"}

\* try_bind_value!(query, value, driver): "Ok" (query.bind(value)), "Err" (a
\* conversion error), and for a variant without an arm the outcome `unlisted`
try_bind_value(driver, v, unlisted) ==
    CASE v.kind \in {"I8", "I16", "I32", "I64", "Float", "Double", "Boolean", "Text"} -> "Ok"
      [] v.kind \in {"Bytes", "U32", "Json", "Uuid", "UtcDateTime", "LocalDateTime",
                     "NaiveDateTime", "NaiveDate", "NaiveTime"} ->
            IF driver \in {"mysql", "sqlite", "postgres"} THEN "Ok" ELSE "Err"
      [] v.kind \in {"U8", "U16"} -> IF driver \in {"mysql", "sqlite"} THEN "Ok" ELSE "Err"
      [] v.kind = "U64" -> IF driver = "mysql" THEN "Ok" ELSE "Err"
      [] v.kind \in {"PgInterval", "PgMoney", "PgTimeTz", "IpNetwork"} ->
            IF driver = "postgres" THEN "Ok" ELSE "Err"
      [] v.kind \in {"BigDecimal", "Decimal"} ->
            IF driver \in {"postgres", "mysql"} THEN "Ok" ELSE "Err"
      [] OTHER -> unlisted

\* TryFrom<Value> for SQLiteValue
SQLiteValue_try_from(v) ==
    CASE v.kind \in {"I8", "I16", "I32", "I64", "U8", "U16", "U32", "Float", "Double",
                     "Boolean", "Text", "Bytes", "Json", "Uuid", "UtcDateTime",
                     "LocalDateTime", "NaiveDateTime", "NaiveDate", "NaiveTime"} -> "Ok"
      [] v.kind \in {"U64", "PgInterval", "PgMoney", "PgTimeTz", "IpNetwork", "BigDecimal",
                     "Decimal"} -> "Err"
      [] OTHER -> ms_unlisted
\* TryFrom<Value> for PgValue
PgValue_try_from(v) ==
    CASE v.kind \in {"I8", "I16", "I32", "I64", "U32", "Float", "Double", "Boolean", "Text",
                     "Bytes", "Json", "Uuid", "PgInterval", "PgMoney", "PgTimeTz",
                     "IpNetwork", "BigDecimal", "Decimal", "UtcDateTime", "LocalDateTime",
                     "NaiveDateTime", "NaiveDate", "NaiveTime"} -> "Ok"
      [] v.kind \in {"U8", "U16", "U64"} -> "Err"
      [] OTHER -> ms_unlisted
\* TryFrom<Value> for MyValue
MyValue_try_from(v) ==
    CASE v.kind \in {"I8", "I16", "I32", "I64", "U8", "U16", "U32", "U64", "Float", "Double",
                     "Boolean", "Text", "Bytes", "Json", "Uuid", "BigDecimal", "Decimal",
                     "UtcDateTime", "LocalDateTime", "NaiveDateTime", "NaiveDate",
                     "NaiveTime"} -> "Ok"
      [] v.kind \in {"PgInterval", "PgMoney", "PgTimeTz", "IpNetwork"} -> "Err"
      [] OTHER -> ms_unlisted
\* the conversion of the driver
DriverValue_try_from(driver, v) ==
    CASE driver = "sqlite" -> SQLiteValue_try_from(v)
      [] driver = "postgres" -> PgValue_try_from(v)
      [] driver = "mysql" -> MyValue_try_from(v)
      [] driver = "mssql" -> MsValue_try_from(v)

\* a request: the statement compiled, the parameters still to bind, the
\* arguments bound, what the connection was sent, and the error returned
Request(driver, unlisted, step, pending) ==
    [driver |-> driver, unlisted |-> unlisted, step |-> step, compiled |-> None,
     pending |-> pending, args |-> <<>>, sent |-> <<>>, error |-> "", converted |-> ""]
NoRequest == Request("", "Ok", "none", <<>>)

----------------------------------------------------------------------------
(* The state machine. *)

\* what build returns
BuildOk(text, values) == [tag |-> "Ok", text |-> text, values |-> values, error |-> ""]
BuildErr(kind) == [tag |-> "Err", text |-> "", values |-> <<>>, error |-> kind]

\* the fields of a visitor that build has just constructed
new_query == <<>>
new_parameters == <<>>
new_order_by_set(previous) == FALSE

Init ==
    /\ \E inp \in Inputs : dialect = inp.dialect /\ ast = inp.query
    /\ ms_unlisted \in (IF dialect = "Mssql" THEN {"Ok", "Err"} ELSE {"Ok"})
    /\ pc = "idle"
    /\ stack = <<>>
    /\ query = <<>>
    /\ parameters = <<>>
    /\ order_by_set = FALSE
    /\ bound = <<>>
    /\ results = <<>>
    /\ request = NoRequest

\* Visitor::build(query): a new visitor, then visit_query
Build ==
    /\ pc = "idle"
    /\ Len(results) < MaxBuilds
    /\ pc' = "running"
    /\ query' = new_query
    /\ parameters' = new_parameters
    /\ order_by_set' = new_order_by_set(order_by_set)
    /\ bound' = <<>>
    /\ stack' = <<Call("visit_query", ast)>>
    /\ UNCHANGED <<request, dialect, ast, ms_unlisted, results>>

Top == Head(stack)
Stepping == pc = "running" /\ Len(stack) > 0

\* self.write(s)
Write ==
    /\ Stepping
    /\ Top.op = "write"
    /\ query' = Append(query, Top.arg)
    /\ stack' = Tail(stack)
    /\ UNCHANGED <<request, dialect, ast, ms_unlisted, pc, parameters, order_by_set, bound, results>>

\* Visitor::visit_parameterized: add_parameter, then parameter_substitution
VisitParameterized ==
    /\ Stepping
    /\ Top.op = "visit_parameterized"
    /\ parameters' = add_parameter(parameters, Top.arg)
    /\ query' = parameter_substitution(query, parameters')
    /\ bound' = Append(bound, [at |-> Len(query) + 1, value |-> Top.arg])
    /\ stack' = Tail(stack)
    /\ UNCHANGED <<request, dialect, ast, ms_unlisted, pc, order_by_set, results>>

\* self.order_by_set = true
SetOrderBy ==
    /\ Stepping
    /\ Top.op = "set_order_by"
    /\ order_by_set' = Top.arg
    /\ stack' = Tail(stack)
    /\ UNCHANGED <<request, dialect, ast, ms_unlisted, pc, query, parameters, bound, results>>

\* entering any other visit_* method: its calls replace it on the stack
Visit ==
    /\ Stepping
    /\ Top.op \notin {"write", "visit_parameterized", "set_order_by", "raise", "panic"}
    /\ stack' = Body(Top) \o Tail(stack)
    /\ UNCHANGED <<request, dialect, ast, ms_unlisted, pc, query, parameters, order_by_set, bound,
                   results>>

\* an Err travels up through the ? operators and build returns it
Fail ==
    /\ Stepping
    /\ Top.op = "raise"
    /\ results' = Append(results, BuildErr(Top.arg))
    /\ pc' = "idle"
    /\ stack' = <<>>
    /\ UNCHANGED <<request, dialect, ast, ms_unlisted, query, parameters, order_by_set, bound>>

\* unwrap on None / Err, unimplemented!, todo!: the thread panics
Abort ==
    /\ Stepping
    /\ Top.op = "panic"
    /\ pc' = "aborted"
    /\ UNCHANGED <<request, dialect, ast, ms_unlisted, stack, query, parameters, order_by_set, bound,
                   results>>

\* Ok((this.query, this.parameters))
Finish ==
    /\ pc = "running"
    /\ Len(stack) = 0
    /\ results' = Append(results, BuildOk(Concat(query), parameters))
    /\ pc' = "idle"
    /\ UNCHANGED <<request, dialect, ast, ms_unlisted, stack, query, parameters, order_by_set, bound>>

\* Update::table("users"), the calls of set and the condition of so_that that
\* a caller makes before build
Users == Table("users")
MaxSets == 3
SetColumns == {Column("foo"), Column("bar")}
SetValues == {Parameterized(Value_integer(1)), Parameterized(Value_integer(10))}
SoThatConditions ==
    {Single(CompareExpr("Equals", ColumnExpr(Column("bar")),
                        Parameterized(Value_boolean(FALSE))))}
UpdateInit ==
    /\ dialect \in Dialects
    /\ ast = Query_Update(Update_table(Users))
    /\ ms_unlisted = "Ok"
    /\ pc = "idle"
    /\ stack = <<>>
    /\ query = <<>>
    /\ parameters = <<>>
    /\ order_by_set = FALSE
    /\ bound = <<>>
    /\ results = <<>>
    /\ request = NoRequest

\* update.set(column, value)
UpdateSet ==
    /\ pc = "idle"
    /\ ast.q = "Update"
    /\ results = <<>>
    /\ Len(ast.node.columns) < MaxSets
    /\ \E column \in SetColumns, value \in SetValues :
          ast' = Query_Update(Update_set(ast.node, column, value))
    /\ UNCHANGED <<request, dialect, ms_unlisted, pc, stack, query, parameters, order_by_set, bound,
                   results>>

\* update.so_that(conditions)
UpdateSoThat ==
    /\ pc = "idle"
    /\ ast.q = "Update"
    /\ results = <<>>
    /\ \E conditions \in SoThatConditions :
          ast' = Query_Update(Update_so_that(ast.node, conditions))
    /\ UNCHANGED <<request, dialect, ms_unlisted, pc, stack, query, parameters, order_by_set, bound,
                   results>>

\* the caller hands build a Select that has been through the hoisting of
\* compatibility_modifications already
Hoist ==
    /\ pc = "idle"
    /\ dialect = "Mssql"
    /\ ast.q = "Select"
    /\ ast' = Mssql_compatibility_modifications(ast).val
    /\ UNCHANGED <<request, dialect, ms_unlisted, pc, stack, query, parameters, order_by_set, bound,
                   results>>

Next ==
    \/ Build
    \/ Write
    \/ VisitParameterized
    \/ SetOrderBy
    \/ Visit
    \/ Fail
    \/ Abort
    \/ Finish

Spec == Init /\ [][Next]_vars

\* an Update is put together and built
UpdateNext ==
    \/ UpdateSet
    \/ UpdateSoThat
    \/ Build
    \/ Write
    \/ VisitParameterized
    \/ Visit
    \/ Finish
UpdateSpec == UpdateInit /\ [][UpdateNext]_vars

\* builds of a query that may have been hoisted before it is built
HoistNext == Next \/ Hoist
HoistSpec == Init /\ [][HoistNext]_vars

\* the execution layer: SelectingExecution::conn, DeletingExecution::conn,
\* SavingExecution::conn, Executioner::save and Executioner::insert
ExecInit ==
    /\ \E inp \in Inputs : dialect = inp.dialect /\ ast = inp.query
    /\ ms_unlisted \in (IF dialect = "Mssql" THEN {"Ok", "Err"} ELSE {"Ok"})
    /\ pc = "idle"
    /\ stack = <<>>
    /\ query = <<>>
    /\ parameters = <<>>
    /\ order_by_set = FALSE
    /\ bound = <<>>
    /\ results = <<>>
    /\ \E unlisted \in {"Ok", "Err"} :
          request = Request(DriverOf(dialect), unlisted, "new", <<>>)

\* let (query, parameters) = Visitor::build(..): the build begins
Conn ==
    /\ request.step = "new"
    /\ pc = "idle"
    /\ pc' = "running"
    /\ query' = new_query
    /\ parameters' = new_parameters
    /\ order_by_set' = new_order_by_set(order_by_set)
    /\ bound' = <<>>
    /\ stack' = <<Call("visit_query", ast)>>
    /\ request' = [request EXCEPT !.step = "building"]
    /\ UNCHANGED <<dialect, ast, ms_unlisted, results>>

Built_ == request.step = "building" /\ pc = "idle" /\ Len(results) = 1

\* build(..)? has returned Err: the error is returned
BuildFailed ==
    /\ Built_
    /\ results[1].tag = "Err"
    /\ request' = [request EXCEPT !.step = "failed", !.error = results[1].error]
    /\ UNCHANGED <<dialect, ast, ms_unlisted, pc, stack, query, parameters, order_by_set,
                   bound, results>>

\* self.compiled.replace(query); sqlx::query(self.compiled.as_ref().unwrap())
Compiled ==
    /\ Built_
    /\ results[1].tag = "Ok"
    /\ request' = [request EXCEPT !.step = "binding", !.compiled = Some(results[1].text),
                                  !.pending = results[1].values]
    /\ UNCHANGED <<dialect, ast, ms_unlisted, pc, stack, query, parameters, order_by_set,
                   bound, results>>

\* variant: the newest parameter is bound first
bind_newest_first ==
    /\ request.step = "binding"
    /\ Len(request.pending) > 0
    /\ LET n == Len(request.pending)
           v == request.pending[n]
       IN /\ try_bind_value(request.driver, v, request.unlisted) = "Ok"
          /\ request' = [request EXCEPT !.args = Append(@, v),
                                        !.pending = SubSeq(@, 1, n - 1)]
    /\ UNCHANGED <<dialect, ast, ms_unlisted, pc, stack, query, parameters, order_by_set,
                   bound, results>>

\* query = query.try_bind_value(parameter)? with Ok
Bind ==
    /\ request.step = "binding"
    /\ Len(request.pending) > 0
    /\ LET v == Head(request.pending)
       IN /\ try_bind_value(request.driver, v, request.unlisted) = "Ok"
          /\ request' = [request EXCEPT !.args = Append(@, v), !.pending = Tail(@)]
    /\ UNCHANGED <<dialect, ast, ms_unlisted, pc, stack, query, parameters, order_by_set,
                   bound, results>>

\* query.try_bind_value(parameter)? with Err: the error is returned
BindFailed ==
    /\ request.step = "binding"
    /\ Len(request.pending) > 0
    /\ try_bind_value(request.driver, Head(request.pending), request.unlisted) = "Err"
    /\ request' = [request EXCEPT !.step = "failed", !.error = "ConversionError"]
    /\ UNCHANGED <<dialect, ast, ms_unlisted, pc, stack, query, parameters, order_by_set,
                   bound, results>>

\* query.fetch_one(conn) / query.execute(conn) / self.execute(query)
Execute ==
    /\ request.step = "binding"
    /\ Len(request.pending) = 0
    /\ request' = [request EXCEPT
                      !.step = "done",
                      !.sent = Append(@, [text |-> Unwrap(request.compiled),
                                          args |-> request.args])]
    /\ UNCHANGED <<dialect, ast, ms_unlisted, pc, stack, query, parameters, order_by_set,
                   bound, results>>

ExecNext ==
    \/ Conn
    \/ Write
    \/ VisitParameterized
    \/ SetOrderBy
    \/ Visit
    \/ Fail
    \/ Abort
    \/ Finish
    \/ BuildFailed
    \/ Compiled
    \/ Bind
    \/ BindFailed
    \/ Execute
ExecSpec == ExecInit /\ [][ExecNext]_vars

\* one value of every variant, bound to a statement of every driver and
\* converted for it
BindValues ==
    {Value(k, null, 1, "") : k \in ListedKinds \cup UnlistedKinds, null \in BOOLEAN}
BindInit ==
    /\ dialect = "Postgres"
    /\ ast = Query_Select(Select_default)
    /\ ms_unlisted \in {"Ok", "Err"}
    /\ pc = "idle"
    /\ stack = <<>>
    /\ query = <<>>
    /\ parameters = <<>>
    /\ order_by_set = FALSE
    /\ bound = <<>>
    /\ results = <<>>
    /\ \E driver \in Drivers, unlisted \in {"Ok", "Err"}, v \in BindValues :
          request = [Request(driver, unlisted, "binding", <<v>>) EXCEPT !.compiled = Some("")]

\* XValue::try_from(value) for the value of the request
Convert ==
    /\ request.converted = ""
    /\ Len(request.pending \o request.args) = 1
    /\ request' = [request EXCEPT
                      !.converted = DriverValue_try_from(request.driver,
                                                         (request.pending \o request.args)[1])]
    /\ UNCHANGED <<dialect, ast, ms_unlisted, pc, stack, query, parameters, order_by_set,
                   bound, results>>

BindNext ==
    \/ Bind
    \/ BindFailed
    \/ Convert
BindSpec == BindInit /\ [][BindNext]_vars


----------------------------------------------------------------------------
(* Properties. *)

\* the positions of the placeholders in a text
Marks(chunks) == {p \in 1..Len(chunks) : chunks[p] = PlaceholderMark}
\* the number a placeholder has, counting from the left
Ordinal(chunks, p) == Cardinality({q \in Marks(chunks) : q <= p})
\* build has returned Ok and the visitor is still as it was on return
Returned == pc = "idle" /\ Len(results) > 0 /\ results[Len(results)].tag = "Ok"

ParamsMatchPlaceholders ==
    /\ Len(bound) = Len(parameters)
    /\ Cardinality(Marks(query)) = Len(parameters)
    /\ \A i \in 1..Len(parameters) :
          /\ parameters[i] = bound[i].value
          /\ bound[i].at \in Marks(query)
          /\ Ordinal(query, bound[i].at) = i
    /\ Returned => /\ results[Len(results)].values = parameters
                   /\ results[Len(results)].text = Concat(query)

ParamsAppendOnly ==
    (parameters' # parameters \/ Marks(query') # Marks(query)) =>
        \/ parameters' = <<>> /\ query' = <<>>
        \/ /\ Len(parameters') = Len(parameters) + 1
           /\ SubSeq(parameters', 1, Len(parameters)) = parameters
           /\ SubSeq(query', 1, Len(query)) = query
           /\ Marks(query') = Marks(query) \cup {Len(query) + 1}

\* C1: on every dialect the text has as many placeholders as there are
\* parameters and the i-th parameter is the value bound to the i-th placeholder
\* from the left, during the build and in what build returns; the parameter
\* list only ever grows by one value at its end, in the step that writes the
\* placeholder of that value.
C1_ParameterOrder == []ParamsMatchPlaceholders /\ [][ParamsAppendOnly]_vars

\* a build has returned four parameters, all different
C1_Witness ==
    /\ Returned
    /\ Len(parameters) = 4
    /\ \A i, j \in 1..4 : i # j => parameters[i] # parameters[j]

Select_1 == Query_Select(Select_value(Select_default, Parameterized(V(1))))

\* C2: the k-th placeholder of a build is $k on Postgres and @Pk on MSSQL, k
\* being the length of the parameter list once the value is appended, so the
\* numbers run 1..N; on SQLite a placeholder is a bare ?.  SELECT 1 is
\* SELECT $1, SELECT ? and SELECT @P1, with the one parameter 1.
C2_PlaceholderSyntax ==
    /\ \A p \in Marks(query) :
          /\ Ordinal(query, p) <= Len(parameters)
          /\ dialect = "Postgres" =>
                query[p] = "$" /\ p < Len(query) /\ query[p + 1] = Display(Ordinal(query, p))
          /\ dialect = "Mssql" =>
                query[p] = "@P" /\ p < Len(query) /\ query[p + 1] = Display(Ordinal(query, p))
          /\ dialect = "Sqlite" =>
                /\ query[p] = "?"
                /\ p < Len(query) => \A k \in 0..Len(parameters) : query[p + 1] # Display(k)
    /\ ast = Select_1 =>
          \A k \in 1..Len(results) :
              results[k] = BuildOk(CASE dialect = "Postgres" -> "SELECT $1"
                                     [] dialect = "Sqlite" -> "SELECT ?"
                                     [] dialect = "Mssql" -> "SELECT @P1",
                                   <<V(1)>>)

\* MSSQL has returned a text with the placeholders @P1 .. @P3
C2_Witness ==
    /\ Returned
    /\ dialect = "Mssql"
    /\ Len(parameters) = 3
    /\ \A i \in 1..3 : query[bound[i].at + 1] = Display(i)

\* C3: build called again on the same query returns the same result, the same
\* text and parameters or the same error, on every dialect.
C3_Deterministic == \A j, k \in 1..Len(results) : results[j] = results[k]

\* MSSQL has built a query twice whose first build set order_by_set
C3_Witness ==
    /\ dialect = "Mssql"
    /\ Len(results) = 2
    /\ results[1].tag = "Ok"
    /\ order_by_set

\* C4: build never aborts the process: every build ends in Ok or in an Err.
C4_BuildNeverAborts == pc # "aborted"

UsesJsonOrSearch == ast.q = "Select" /\ ast.node \in Unsupported

\* C5: on SQLite and MSSQL a query with a JSON operation or a full-text search
\* has one outcome only: build returns the error UnsupportedOperation.
C5_UnsupportedOperation ==
    (dialect \in {"Sqlite", "Mssql"} /\ UsesJsonOrSearch) =>
        /\ pc # "aborted"
        /\ \A k \in 1..Len(results) : results[k] = BuildErr("UnsupportedOperation")

\* how many parentheses are open at position p of the text
Depth(p) ==
    Cardinality({x \in 1..(p - 1) : query[x] = "("})
    - Cardinality({x \in 1..(p - 1) : query[x] = ")"})

\* the ORDER BY chunks written for the SELECT that position p belongs to: at
\* the nesting of p, with no other SELECT of that nesting in between
OrderBysBefore(p) ==
    {o \in 1..(p - 1) :
        /\ query[o] = " ORDER BY "
        /\ Depth(o) = Depth(p)
        /\ \A x \in (o + 1)..(p - 1) :
              /\ Depth(x) >= Depth(p)
              /\ ~(query[x] = "SELECT " /\ Depth(x) = Depth(p))}

\* C6: on MSSQL every OFFSET that is written comes after exactly one ORDER BY of
\* the same SELECT, for every SELECT of the build.
C6_OffsetAfterOrderBy ==
    dialect = "Mssql" =>
        \A p \in 1..Len(query) :
            query[p] = " OFFSET " => Cardinality(OrderBysBefore(p)) = 1

IsPaged == ast.q = "Select" /\ ast.node \in PagedSelects

PagedPrefix(select) ==
    "SELECT ^test^.* FROM ^test^"
    \o (IF Len(select.ordering) > 0 THEN " ORDER BY ^test^.^a^" ELSE "")

\* C7: on SQLite an offset without a limit is written LIMIT ? OFFSET ? with the
\* parameters -1 and the offset, limit and offset LIMIT ? OFFSET ? with the two,
\* a limit alone LIMIT ? with the limit, neither as nothing; no OFFSET is
\* written without a LIMIT in front of it.
C7_SqliteLimitOffset ==
    dialect = "Sqlite" =>
        /\ \A p \in 1..Len(query) :
              query[p] = " OFFSET " => (p > 2 /\ query[p - 2] = " LIMIT ")
        /\ IsPaged =>
              LET limit == ast.node.limit
                  offset == ast.node.offset
                  expected ==
                      CASE IsSome(limit) /\ IsSome(offset) ->
                              BuildOk(PagedPrefix(ast.node) \o " LIMIT ? OFFSET ?",
                                      <<Unwrap(limit), Unwrap(offset)>>)
                        [] IsNone(limit) /\ IsSome(offset) ->
                              BuildOk(PagedPrefix(ast.node) \o " LIMIT ? OFFSET ?",
                                      <<V(-1), Unwrap(offset)>>)
                        [] IsSome(limit) /\ IsNone(offset) ->
                              BuildOk(PagedPrefix(ast.node) \o " LIMIT ?", <<Unwrap(limit)>>)
                        [] OTHER -> BuildOk(PagedPrefix(ast.node), <<>>)
              IN \A k \in 1..Len(results) : results[k] = expected

\* SQLite has returned the text of a select with an offset and no limit
C7_Witness ==
    /\ dialect = "Sqlite"
    /\ ast = Query_Select(Paged(FALSE, None, Some(V(5))))
    /\ Returned
    /\ parameters = <<V(-1), V(5)>>

\* the text of a list of texts with a separator between them
RECURSIVE Joined(_, _)
Joined(texts, sep) ==
    IF Len(texts) = 0 THEN ""
    ELSE IF Len(texts) = 1 THEN texts[1]
    ELSE texts[1] \o sep \o Joined(Tail(texts), sep)

\* (id1 = p AND ... AND idw = p) for row r of width w
EqualityGroup(w, r) ==
    "(" \o Joined([j \in 1..w |-> "[test].[id" \o Display(j) \o "] = @P"
                                  \o Display((r - 1) * w + j)], " AND ") \o ")"
OrOfAnds(w, m, neg) ==
    (IF neg THEN "NOT " ELSE "") \o "("
    \o Joined([r \in 1..m |-> EqualityGroup(w, r)], " OR ") \o ")"
RowMajor(w, m) == [i \in 1..(w * m) |-> V(i)]

\* C8: on MSSQL Row(id1..idn) IN Values[r1..rm], n >= 2, is the OR over the
\* rows of the AND over the columns, with the parameters row by row, and NOT IN
\* is the same group after NOT.
C8_TupleInValues ==
    dialect = "Mssql" =>
        \A w \in 2..MaxWidth, m \in 1..MaxRows, neg \in BOOLEAN :
            ast = Query_Select(Where(TupleIn(w, m, neg))) =>
                \A k \in 1..Len(results) :
                    results[k] = BuildOk("SELECT [test].* FROM [test] WHERE "
                                         \o OrOfAnds(w, m, neg), RowMajor(w, m))

\* MSSQL has returned the text of (id1, id2) IN ((1, 2), (3, 4))
C8_Witness ==
    /\ dialect = "Mssql"
    /\ ast = Query_Select(Where(TupleIn(2, 2, FALSE)))
    /\ Returned
    /\ results[1].text = "SELECT [test].* FROM [test] WHERE "
                         \o "(([test].[id1] = @P1 AND [test].[id2] = @P2) OR "
                         \o "([test].[id1] = @P3 AND [test].[id2] = @P4))"
    /\ parameters = <<V(1), V(2), V(3), V(4)>>

\* C9: on MSSQL an equality of two rows of the same width is the conjunction
\* of the equalities position by position and the inequality is NOT of that
\* conjunction; with an operand that is no row the comparison is written
\* left = right or left <> right and the operands keep their aliases.
C9_RowEquality ==
    dialect = "Mssql" =>
        /\ \A w \in 1..MaxWidth, neg \in BOOLEAN :
              ast = Query_Select(Where(RowEq(w, neg))) =>
                  \A k \in 1..Len(results) :
                      results[k] = BuildOk("SELECT [test].* FROM [test] WHERE "
                                           \o (IF neg THEN "NOT " ELSE "")
                                           \o "(" \o EqualityGroup(w, 1) \o ")",
                                           RowMajor(w, 1))
        /\ \A neg \in BOOLEAN, la \in BOOLEAN, ra \in BOOLEAN :
              ast = Query_Select(Where(PlainEq(neg, la, ra))) =>
                  \A k \in 1..Len(results) :
                      results[k] = BuildOk("SELECT [test].* FROM [test] WHERE [test].[a]"
                                           \o (IF la THEN " AS [l]" ELSE "")
                                           \o (IF neg THEN " <> " ELSE " = ") \o "@P1"
                                           \o (IF ra THEN " AS [r]" ELSE ""),
                                           <<V(1)>>)

\* MSSQL has returned the text of (id1, id2) = (1, 2)
C9_Witness ==
    /\ dialect = "Mssql"
    /\ ast = Query_Select(Where(RowEq(2, FALSE)))
    /\ Returned
    /\ Len(parameters) = 2

Foo_unique_bar == add_unique_index(Foo, IndexSingle(Foo_bar))
Foo_default_id ==
    add_unique_index(Foo, IndexSingle(WithDefault(ColumnOf("foo", "id"), Value_text("purr"))))
SingleInsert(table, on_conflict) ==
    Query_Insert(Insert(Some(table), <<Foo_bar, Foo_wtf>>, RowExpr(TextRow(1)),
                        on_conflict, None))
MergeText(join) ==
    "MERGE INTO [foo] USING (SELECT @P1 AS [bar], @P2 AS [wtf]) AS [dual] ([bar],[wtf])"
    \o " ON " \o join \o " WHEN NOT MATCHED THEN"
    \o " INSERT ([bar],[wtf]) VALUES ([dual].[bar],[dual].[wtf]);"

\* C10: on MSSQL a single-row insert with DoNothing is MERGE INTO the table
\* USING the select of the values under their column names AS [dual], ON the
\* join, WHEN NOT MATCHED THEN INSERT the columns from [dual]; the parameters
\* are the values of the insert and then the default the join compares with.
\* Without a conflict policy the insert stays a plain INSERT.
C10_InsertAsMerge ==
    dialect = "Mssql" =>
        \A k \in 1..Len(results) :
            /\ ast = SingleInsert(Foo_unique_bar, Some("DoNothing")) =>
                  results[k] = BuildOk(MergeText("[dual].[bar] = [foo].[bar]"),
                                       <<Value_text("lol1"), Value_text("meow1")>>)
            /\ ast = SingleInsert(Foo_default_id, Some("DoNothing")) =>
                  results[k] = BuildOk(MergeText("[foo].[id] = @P3"),
                                       <<Value_text("lol1"), Value_text("meow1"),
                                         Value_text("purr")>>)
            /\ ast = SingleInsert(Foo_unique_bar, None) =>
                  results[k] = BuildOk("INSERT INTO [foo] ([foo].[bar],[foo].[wtf])"
                                       \o " VALUES (@P1,@P2)",
                                       <<Value_text("lol1"), Value_text("meow1")>>)

----------------------------------------------------------------------------
(* The join of a MERGE. *)

\* MSSQL has returned the MERGE of an insert with DoNothing and no RETURNING
Merged ==
    /\ dialect = "Mssql"
    /\ ast.q = "Insert"
    /\ IsSome(ast.node.on_conflict)
    /\ IsNone(ast.node.returning)
    /\ Returned
\* where the ON predicate of the MERGE begins and ends in the text
OnFrom == CHOOSE p \in 1..Len(query) : query[p] = " ON "
OnTo == CHOOSE p \in 1..Len(query) : query[p] = " WHEN NOT MATCHED THEN "
OnPredicate == Concat(SubSeq(query, OnFrom + 1, OnTo - 1))
\* the names of the columns the ON predicate compares
OnNames ==
    {query[p + 1] : p \in {x \in OnFrom..OnTo : query[x] = "["}} \ {"dual", "foo"}
IndexesOf(insert) == Unwrap(insert.table).index_definitions
Inserted(insert, c) == Contains(insert.columns, c)
\* the columns of an index that the join can compare: those the insert gives a
\* value to and those with a static default
Comparable(insert, index) ==
    {index.cols[j].name : j \in {x \in 1..Len(index.cols) :
        \/ Inserted(insert, index.cols[x])
        \/ (IsSome(index.cols[x].default) /\ Unwrap(index.cols[x].default).dv = "Provided")}}

\* C11 as the specification has it: only the columns of the first declared
\* unique index appear in the ON predicate of the MERGE.
C11_FirstIndexOnly ==
    Merged => OnNames \subseteq Comparable(ast.node, IndexesOf(ast.node)[1])

\* C11: the ON predicate of the MERGE compares the columns of every declared
\* unique index of the table, not of the first one only: each column of each
\* index that the insert gives a value to or that has a static default.
C11_EveryIndexJoins ==
    Merged =>
        OnNames = UNION {Comparable(ast.node, IndexesOf(ast.node)[i]) :
                            i \in 1..Len(IndexesOf(ast.node))}

TwoUniques == Indexed(<<IndexSingle(Foo_bar), IndexSingle(Foo_wtf)>>)

\* MSSQL has returned the MERGE for a table with unique(bar) and unique(wtf)
C11_Witness ==
    /\ Merged
    /\ ast.node = SingleInto(TwoUniques, <<Foo_bar, Foo_wtf>>)
    /\ OnNames = {"bar", "wtf"}

\* every column of every index is given a value by the insert and has no default
PlainlyIndexed(insert) ==
    \A i \in 1..Len(IndexesOf(insert)) : \A j \in 1..Len(IndexesOf(insert)[i].cols) :
        /\ Inserted(insert, IndexesOf(insert)[i].cols[j])
        /\ IsNone(IndexesOf(insert)[i].cols[j].default)
DualEquals(c) == "[dual].[" \o c.name \o "] = [foo].[" \o c.name \o "]"
\* the AND over the columns of an index; one column alone has no parentheses
IndexText(index) ==
    IF index.idx = "Single" THEN DualEquals(index.cols[1])
    ELSE "(" \o Joined([j \in 1..Len(index.cols) |-> DualEquals(index.cols[j])], " AND ")
         \o ")"
\* the OR over the indexes; one index alone is written as it is
JoinText(indexes) ==
    IF Len(indexes) = 1 THEN IndexText(indexes[1])
    ELSE "(" \o Joined([i \in 1..Len(indexes) |-> IndexText(indexes[i])], " OR ") \o ")"

\* C12: on MSSQL the ON predicate of the MERGE is the OR, over the unique
\* indexes of the table in the order of their declaration, of the AND over the
\* columns of the index in their order: unique(bar), unique(wtf) is
\* ([dual].[bar] = [foo].[bar] OR [dual].[wtf] = [foo].[wtf]), the compound
\* unique(bar, wtf) the same with AND, one index of one column the bare equality.
C12_JoinOverIndexes ==
    (Merged /\ PlainlyIndexed(ast.node)) =>
        /\ OnPredicate = JoinText(IndexesOf(ast.node))
        /\ ast.node = SingleInto(TwoUniques, <<Foo_bar, Foo_wtf>>) =>
              OnPredicate = "([dual].[bar] = [foo].[bar] OR [dual].[wtf] = [foo].[wtf])"
        /\ ast.node = SingleInto(Indexed(<<IndexCompound(<<Foo_bar, Foo_wtf>>)>>),
                                 <<Foo_bar, Foo_wtf>>) =>
              OnPredicate = "([dual].[bar] = [foo].[bar] AND [dual].[wtf] = [foo].[wtf])"
        /\ IndexesOf(ast.node) = <<IndexSingle(Foo_bar)>> =>
              OnPredicate = "[dual].[bar] = [foo].[bar]"

\* MSSQL has returned the MERGE for unique(wtf), unique(bar), declared in that
\* order, with the predicate in that order
C12_Witness ==
    /\ Merged
    /\ ast.node = SingleInto(Indexed(<<IndexSingle(Foo_wtf), IndexSingle(Foo_bar)>>),
                             <<Foo_bar, Foo_wtf>>)
    /\ OnPredicate = "([dual].[wtf] = [foo].[wtf] OR [dual].[bar] = [foo].[bar])"

\* an index with a database-generated column the insert gives no value to
Unknown(insert, index) ==
    \E j \in 1..Len(index.cols) :
        /\ ~Inserted(insert, index.cols[j])
        /\ IsSome(index.cols[j].default)
        /\ Unwrap(index.cols[j].default).dv = "Generated"
\* the chunks of the ON predicate; x is in the parenthesised group that holds p
OnChunks == SubSeq(query, OnFrom + 1, OnTo - 1)
InGroup(p, x) ==
    \A y \in (IF x < p THEN x ELSE p)..(IF x < p THEN p ELSE x) : Depth(y) >= Depth(p)
GeneratedTable ==
    Indexed(<<IndexSingle(Purr(Foo_bar)), IndexSingle(WithGenerated(Foo_lol)),
              IndexSingle(Foo_wtf)>>)
GeneratedCompound ==
    Indexed(<<IndexCompound(<<Purr(Foo_bar), Foo_wtf>>),
              IndexCompound(<<WithGenerated(Foo_omg), Foo_lol>>)>>)

\* C13: a unique index with a database-generated column that the insert gives
\* no value to adds no disjunct that can hold to the ON predicate of the MERGE:
\* of a one-column index nothing is written, and the group of a compound index
\* holds the constant 1=0 in place of the generated column; when the insert
\* gives the generated column a value, the index joins through [dual].
C13_GeneratedIndexNeverMatches ==
    Merged =>
        /\ \A i \in 1..Len(IndexesOf(ast.node)) :
              LET index == IndexesOf(ast.node)[i]
              IN Unknown(ast.node, index) =>
                    /\ \A j \in 1..Len(index.cols) :
                          ~Inserted(ast.node, index.cols[j]) /\ IsSome(index.cols[j].default)
                          /\ Unwrap(index.cols[j].default).dv = "Generated"
                            => index.cols[j].name \notin OnNames
                    /\ index.idx = "Single" =>
                          \/ OnChunks = <<"1=0">>
                          \/ \A p \in 1..Len(OnChunks) : OnChunks[p] # "1=0"
                    /\ index.idx = "Compound" =>
                          \E p \in (OnFrom + 1)..(OnTo - 1) :
                              /\ query[p] = "1=0"
                              /\ Depth(p) > Depth(OnFrom)
                              /\ \A j \in 1..Len(index.cols) :
                                    Inserted(ast.node, index.cols[j]) =>
                                        \E x \in (OnFrom + 1)..(OnTo - 1) :
                                            /\ query[x] = index.cols[j].name
                                            /\ InGroup(p, x)
        /\ ast.node = SingleInto(GeneratedTable, <<Foo_wtf>>) =>
              OnPredicate = "([foo].[bar] = @P2 OR [dual].[wtf] = [foo].[wtf])"
        /\ ast.node = SingleInto(GeneratedCompound, <<Foo_wtf, Foo_lol>>) =>
              OnPredicate = "(([foo].[bar] = @P3 AND [dual].[wtf] = [foo].[wtf])"
                            \o " OR (1=0 AND [dual].[lol] = [foo].[lol]))"
        /\ ast.node = SingleInto(GeneratedTable, <<Foo_wtf, Foo_lol>>) =>
              OnPredicate = "([foo].[bar] = @P3 OR [dual].[lol] = [foo].[lol]"
                            \o " OR [dual].[wtf] = [foo].[wtf])"

\* MSSQL has returned the MERGE for a compound index with a generated column
\* the insert gives no value to
C13_Witness ==
    /\ Merged
    /\ ast.node = SingleInto(GeneratedCompound, <<Foo_wtf, Foo_lol>>)
    /\ \E p \in (OnFrom + 1)..(OnTo - 1) : query[p] = "1=0"
    /\ parameters = <<Value_text("meow"), Value_text("hiss"), Value_text("purr")>>

----------------------------------------------------------------------------
(* Hoisting of Row IN (SELECT ..) into table expressions. *)

MaxCtes == 3
CteNames == {"cte_" \o Display(i) : i \in 0..MaxCtes}
\* the number of predicates Row [NOT] IN (SELECT ..) in a tree, at any depth
RECURSIVE TupleSelects(_)
TupleSelects(tree) ==
    LET n(e) == IF is_tuple_select(e) THEN 1
                ELSE IF e.kind.k = "ConditionTree" THEN TupleSelects(e.kind.tree)
                ELSE 0
        RECURSIVE sum(_)
        sum(i) == IF i > Len(tree.list) THEN 0 ELSE n(tree.list[i]) + sum(i + 1)
    IN sum(1)
\* the n-th position of a set of positions
Nth(S, n) == CHOOSE p \in S : Cardinality({q \in S : q <= p}) = n
\* where the text names a table expression to define it, and to select from it
CteDefinitions ==
    {p \in 2..(Len(query) - 2) :
        query[p] \in CteNames /\ query[p - 1] = "[" /\ query[p + 2] = " AS "}
CteReferences ==
    {p \in 3..Len(query) : query[p] \in CteNames /\ query[p - 2] = " FROM "}
\* the definition that a reference names
DefinitionOf(r) == CHOOSE d \in CteDefinitions : query[d] = query[r]
Hoisted ==
    /\ dialect = "Mssql"
    /\ ast \in {Query_Select(sel) : sel \in HoistSelects}
    /\ Returned
TwoHoisted == Query_Select(SoThat(And(<<Tsel(0, FALSE), Tsel(1, TRUE)>>)))

\* C14: on MSSQL a Select with k predicates Row [NOT] IN (SELECT ..) in its
\* conditions, at any depth of And, Or and Not, is written with one WITH clause
\* of the k table expressions cte_0 .. cte_(k-1), in the order of the
\* predicates from the left, and with no WITH clause when k is 0; the i-th
\* predicate becomes first column [NOT] IN (SELECT col FROM cte_(i-1) WHERE the
\* other columns are equal), col being the first column of its own sub-select.
C14_TupleSelectsHoisted ==
    Hoisted =>
        LET k == TupleSelects(Unwrap(ast.node.conditions))
        IN /\ Cardinality({p \in 1..Len(query) : query[p] = "WITH "}) = IF k > 0 THEN 1 ELSE 0
           /\ k > 0 => query[1] = "WITH "
           /\ Cardinality(CteDefinitions) = k
           /\ Cardinality(CteReferences) = k
           /\ \A i \in 1..k :
                 LET d == Nth(CteDefinitions, i)
                     r == Nth(CteReferences, i)
                 IN /\ query[d] = "cte_" \o Display(i - 1)
                    /\ query[r] = "cte_" \o Display(i - 1)
                    /\ d < Nth(CteReferences, 1)
                    /\ query[d + 3] = "(" /\ query[d + 4] = "SELECT "
                    /\ query[r - 8] \in {" IN ", " NOT IN "}
                    /\ query[r - 7] = "(" /\ query[r - 6] = "SELECT "
                    /\ query[r - 4] = query[DefinitionOf(r) + 9]
                    /\ query[r + 2] = " WHERE "
           /\ ast = TwoHoisted =>
                 results[Len(results)] =
                    BuildOk("WITH [cte_0] AS (SELECT @P1 AS [a0], @P2 AS [b0]), "
                            \o "[cte_1] AS (SELECT @P3 AS [a1], @P4 AS [b1]) "
                            \o "SELECT [test].* FROM [test] WHERE "
                            \o "([test].[x] IN (SELECT [a0] FROM [cte_0] WHERE [b0] = [test].[y])"
                            \o " AND [test].[x] NOT IN "
                            \o "(SELECT [a1] FROM [cte_1] WHERE [b1] = [test].[y]))",
                            <<V(1), V(2), V(11), V(12)>>)

\* MSSQL has returned a text with three table expressions, the deepest
\* predicate under And, Or and Not
C14_Witness ==
    /\ Hoisted
    /\ TupleSelects(Unwrap(ast.node.conditions)) = 3
    /\ Cardinality(CteDefinitions) = 3
    /\ query[Nth(CteReferences, 3)] = "cte_2"

\* C15: the hoisting is idempotent: applied to a Select that has been through
\* it, it gives that Select back, and a Select hoisted before it is built is
\* built to the same text and parameters as the Select itself.
C15_HoistIdempotent ==
    (dialect = "Mssql" /\ ast.q = "Select") =>
        /\ LET once == Mssql_compatibility_modifications(ast).val
           IN Mssql_compatibility_modifications(once) = Ok(once)
        /\ \A j, k \in 1..Len(results) : results[j] = results[k]

\* MSSQL has built a Select twice, the second time after it was hoisted into
\* two table expressions
C15_Witness ==
    /\ dialect = "Mssql"
    /\ ast.q = "Select"
    /\ Len(ast.node.ctes) = 2
    /\ Len(results) = 2
    /\ Returned

\* the parameters of a tree in the order the tree has them, those of the
\* sub-selects of its predicates Row IN (SELECT ..) and the others
RECURSIVE ParamsOf(_, _)
ParamsOf(e, which) ==
    LET k == e.kind.k
        over(es) == Flatten([i \in 1..Len(es) |-> ParamsOf(es[i], which)])
    IN CASE k = "Parameterized" -> IF which \in {"all", "others"} THEN <<e.kind.value>> ELSE <<>>
         [] k = "ConditionTree" -> over(e.kind.tree.list)
         [] k = "Row" -> over(e.kind.values)
         [] k = "Selection" -> over(e.kind.selection.columns)
         [] k = "Compare" ->
                IF is_tuple_select(e)
                THEN IF which = "others" THEN <<>>
                     ELSE ParamsOf(e.kind.compare.right, "all")
                ELSE ParamsOf(e.kind.compare.left, which) \o ParamsOf(e.kind.compare.right, which)
         [] OTHER -> <<>>
TreeParams(which) == ParamsOf(TreeExpr(Unwrap(ast.node.conditions)), which)

\* C16 as the specification has it: a parameter outside the hoisted
\* sub-selects has the index it has in the Select as written.
C16_SamePositions ==
    Hoisted =>
        \A i \in 1..Len(TreeParams("all")) :
            (\E j \in 1..Len(TreeParams("others")) :
                TreeParams("others")[j] = TreeParams("all")[i])
            => parameters[i] = TreeParams("all")[i]

\* C16: the hoisting keeps the order of the parameters outside the hoisted
\* sub-selects and the tree around the predicates, but not their indexes: the
\* parameters of the hoisted sub-selects come first, in the order of the
\* predicates, and every other parameter follows in the order of the tree, its
\* index raised by the number of hoisted parameters.
C16_HoistedParametersFirst ==
    Hoisted =>
        /\ parameters = TreeParams("hoisted") \o TreeParams("others")
        /\ ast = Query_Select(SoThat(And(<<Eq("y", "bar"), Eq("z", "foo"),
                                           Tsel(0, FALSE)>>))) =>
              results[Len(results)].text =
                 "WITH [cte_0] AS (SELECT @P1 AS [a0], @P2 AS [b0]) "
                 \o "SELECT [test].* FROM [test] WHERE ([test].[y] = @P3 AND [test].[z] = @P4"
                 \o " AND [test].[x] IN (SELECT [a0] FROM [cte_0] WHERE [b0] = [test].[y]))"
        /\ ast = Query_Select(SoThat(Or(<<Eq("y", "bar"),
                     TreeExpr(And(<<Eq("z", "foo"), Tsel(0, FALSE)>>))>>))) =>
              results[Len(results)].text =
                 "WITH [cte_0] AS (SELECT @P1 AS [a0], @P2 AS [b0]) "
                 \o "SELECT [test].* FROM [test] WHERE ([test].[y] = @P3 OR ([test].[z] = @P4"
                 \o " AND [test].[x] IN (SELECT [a0] FROM [cte_0] WHERE [b0] = [test].[y])))"

\* MSSQL has returned y = bar AND z = foo AND (x, y) IN (SELECT 1, 2) with the
\* parameters of the sub-select in front
C16_Witness ==
    /\ Hoisted
    /\ TreeParams("all") = <<Value_text("bar"), Value_text("foo"), V(1), V(2)>>
    /\ parameters = <<V(1), V(2), Value_text("bar"), Value_text("foo")>>

----------------------------------------------------------------------------
(* The grouping of condition trees. *)

\* the text that the visitor writes for a tree without parameters: the calls
\* are entered one after the other until only writes are left
RECURSIVE Expand(_)
Expand(items) ==
    IF Len(items) = 0 THEN <<>>
    ELSE IF Head(items).op = "write" THEN <<Head(items).arg>> \o Expand(Tail(items))
    ELSE Expand(Body(Head(items)) \o Tail(items))
Rendered(tree) == Expand(<<Call("visit_conditions", tree)>>)

\* the grouping of a tree: the tree without its Single wrappers
RECURSIVE Unwrapped(_)
Unwrapped(e) ==
    IF e.kind.k # "ConditionTree" THEN e
    ELSE IF e.kind.tree.ct = "Single" THEN Unwrapped(e.kind.tree.list[1])
    ELSE TreeExpr([e.kind.tree EXCEPT !.list =
                      [i \in 1..Len(e.kind.tree.list) |-> Unwrapped(e.kind.tree.list[i])]])
Grouping(tree) == Unwrapped(TreeExpr(tree))

\* the truth of a tree when the comparisons a, b, c have the truth env gives them
RECURSIVE Truth(_, _)
Truth(e, env) ==
    IF e.kind.k = "Compare" THEN env[e.kind.compare.left.kind.column.name]
    ELSE LET tree == e.kind.tree
         IN CASE tree.ct = "And" -> \A i \in 1..Len(tree.list) : Truth(tree.list[i], env)
              [] tree.ct = "Or" -> \E i \in 1..Len(tree.list) : Truth(tree.list[i], env)
              [] tree.ct = "Not" -> ~Truth(tree.list[1], env)
              [] tree.ct = "Single" -> Truth(tree.list[1], env)

\* the truth of a text read with the precedence of SQL: a comparison binds
\* tighter than NOT, NOT tighter than AND, AND tighter than OR; a comparison
\* is the chunks of  [test].[n] < [test].[k]
AtomChunks == Len(Expand(<<Call("visit_expression", Atom("a"))>>))
RECURSIVE ParseOr(_, _, _)
RECURSIVE ParseAnd(_, _, _)
RECURSIVE ParseNot(_, _, _)
RECURSIVE OrRest(_, _, _)
RECURSIVE AndRest(_, _, _)
ParsePrimary(cs, env, i) ==
    IF cs[i] = "("
    THEN LET r == ParseOr(cs, env, i + 1)
         IN [v |-> r.v, pos |-> r.pos + 1, ok |-> r.ok /\ r.pos <= Len(cs) /\ cs[r.pos] = ")"]
    ELSE [v |-> env[cs[i + 5]], pos |-> i + AtomChunks, ok |-> cs[i + 7] = " < "]
ParseNot(cs, env, i) ==
    IF cs[i] = "NOT "
    THEN LET r == ParseNot(cs, env, i + 1) IN [r EXCEPT !.v = ~r.v]
    ELSE ParsePrimary(cs, env, i)
AndRest(cs, env, l) ==
    IF l.pos <= Len(cs) /\ cs[l.pos] = " AND "
    THEN LET r == ParseNot(cs, env, l.pos + 1)
         IN AndRest(cs, env, [v |-> l.v /\ r.v, pos |-> r.pos, ok |-> l.ok /\ r.ok])
    ELSE l
ParseAnd(cs, env, i) == AndRest(cs, env, ParseNot(cs, env, i))
OrRest(cs, env, l) ==
    IF l.pos <= Len(cs) /\ cs[l.pos] = " OR "
    THEN LET r == ParseAnd(cs, env, l.pos + 1)
         IN OrRest(cs, env, [v |-> l.v \/ r.v, pos |-> r.pos, ok |-> l.ok /\ r.ok])
    ELSE l
ParseOr(cs, env, i) == OrRest(cs, env, ParseAnd(cs, env, i))
Envs == [{"a", "b", "c"} -> BOOLEAN]

\* the chunks a build has written after WHERE
WhereChunks ==
    LET w == CHOOSE p \in 1..Len(query) : query[p] = " WHERE "
    IN SubSeq(query, w + 1, Len(query))
Grouped ==
    /\ ast \in {Query_Select(sel) : sel \in GroupingSelects}
    /\ Returned
Tree == Unwrap(ast.node.conditions)

\* C17: on every dialect the text of a tree of And, Or, Not and Single, read
\* with the precedence of SQL, has the truth of the tree for every truth of its
\* comparisons, and no tree of another grouping is written as the same text:
\* And[a, b, c] is (a AND b AND c) and And[a, And[b, c]] is (a AND (b AND c)).
C17_GroupingRoundTrip ==
    Grouped =>
        /\ WhereChunks = Rendered(Tree)
        /\ \A env \in Envs :
              LET r == ParseOr(WhereChunks, env, 1)
              IN r.ok /\ r.pos = Len(WhereChunks) + 1 /\ r.v = Truth(TreeExpr(Tree), env)
        /\ \A other \in GroupingTrees :
              Grouping(other) # Grouping(Tree) => Rendered(other) # WhereChunks
        /\ (dialect = "Mssql" /\ Tree = Node("And", <<Atom("a"),
                    TreeExpr(Node("And", <<Atom("b"), Atom("c")>>))>>)) =>
              Concat(WhereChunks) = "([test].[a] < [test].[k] AND ([test].[b] < [test].[k]"
                                    \o " AND [test].[c] < [test].[k]))"

\* a build has returned the text of And[Or[a, b], c]
C17_Witness ==
    /\ Grouped
    /\ Tree = Node("And", <<TreeExpr(Node("Or", <<Atom("a"), Atom("b")>>)), Atom("c")>>)
    /\ WhereChunks[1] = "(" /\ WhereChunks[2] = "("

\* a text that is one parenthesised group from its first chunk to its last
Wrapped(cs) ==
    /\ Len(cs) >= 2
    /\ cs[1] = "(" /\ cs[Len(cs)] = ")"
    /\ \A p \in 1..(Len(cs) - 1) :
          Cardinality({x \in 1..p : cs[x] = "("}) > Cardinality({x \in 1..p : cs[x] = ")"})
\* the number of And, Or and Not nodes of an expression
RECURSIVE Groups(_)
Groups(e) ==
    IF e.kind.k # "ConditionTree" THEN 0
    ELSE LET tree == e.kind.tree
             RECURSIVE below(_)
             below(i) == IF i > Len(tree.list) THEN 0 ELSE Groups(tree.list[i]) + below(i + 1)
         IN (IF tree.ct \in {"And", "Or", "Not"} THEN 1 ELSE 0) + below(1)
Count(cs, chunk) == Cardinality({x \in 1..Len(cs) : cs[x] = chunk})
\* the join of the MERGE a build has written is an And or an Or
JoinIsGroup ==
    /\ Merged
    /\ join_conditions(Unwrap(ast.node.table), ast.node.columns).val.ct \in Ops

\* C18 as the specification has it: the outermost And or Or of a WHERE or ON
\* clause is written without parentheses around it.
C18_OutermostBare ==
    /\ (Grouped /\ Tree.ct \in Ops) => ~Wrapped(WhereChunks)
    /\ JoinIsGroup => ~Wrapped(OnChunks)

\* C18: every And and Or of a tree is written in parentheses of its own, the
\* outermost of a WHERE or ON clause as well as those below it (and so is
\* every Not): the text of a tree has one pair of parentheses for each.
C18_EveryGroupWrapped ==
    /\ Grouped =>
          /\ Tree.ct \in Ops => Wrapped(WhereChunks)
          /\ Count(WhereChunks, "(") = Groups(TreeExpr(Tree))
          /\ Count(WhereChunks, ")") = Groups(TreeExpr(Tree))
          /\ Tree.ct = "Single" => Count(WhereChunks, "(") = 0
    /\ JoinIsGroup => Wrapped(OnChunks)

\* MSSQL has returned Or[a, And[b, c]] in two pairs of parentheses
C18_Witness ==
    /\ Grouped
    /\ dialect = "Mssql"
    /\ Tree = Node("Or", <<Atom("a"), TreeExpr(Node("And", <<Atom("b"), Atom("c")>>))>>)
    /\ Wrapped(WhereChunks)
    /\ Count(WhereChunks, "(") = 2

\* ------------------------------------------------------------------------
\* raw literals
\* ------------------------------------------------------------------------
\* SELECT <v written raw>
RawOf(v) == Select_value(Select_default, RawValue(v))
IsRawOf(v) == ast.q = "Select" /\ ast.node = RawOf(v)
\* every build of the input so far has returned this text and no parameters
AlwaysReturns(text) ==
    /\ pc # "aborted"
    /\ \A k \in DOMAIN results : results[k] = BuildOk(text, <<>>)
NotANumber == {"NaN", "Infinity", "-Infinity"}
Sentinel(t) == IF t \in NotANumber THEN "'" \o t \o "'" ELSE t

\* C19: on every dialect a raw Float or Double that is NaN, Infinity or
\* -Infinity is written as that word between two single quotes, and every other
\* float as its numeric literal.
C19_FloatSentinels ==
    \A v \in RawFloats :
        IsRawOf(v) => AlwaysReturns("SELECT " \o Sentinel(v.s))

\* the literal syntax of a dialect for the bytes bs
BytesLiteral(d, bs) ==
    CASE d = "Postgres" -> "E'" \o hex_encode(bs) \o "'"
      [] d = "Sqlite" -> "x'" \o hex_encode(bs) \o "'"
      [] d = "Mssql" -> "0x" \o hex_encode(bs)
BooleanLiteral(d, b) ==
    IF d = "Mssql" THEN (IF b = 1 THEN "1" ELSE "0") ELSE (IF b = 1 THEN "true" ELSE "false")
\* the kinds whose literal is laid down for the dialect d
Literals(d) ==
    {"Bytes", "Boolean"} \cup (IF d = "Mssql" THEN {"Uuid", "DateTime"} ELSE {})
Literal(d, v) ==
    CASE v.null -> "null"
      [] v.kind = "Bytes" -> BytesLiteral(d, v.b)
      [] v.kind = "Boolean" -> BooleanLiteral(d, v.i)
      [] v.kind = "Uuid" -> "CONVERT(uniqueidentifier, N'" \o v.s \o "')"
      [] v.kind = "DateTime" -> "CONVERT(datetimeoffset, N'" \o v.s \o "')"

\* C20: a raw value that is not null is written in the literal syntax of the
\* dialect and the build succeeds: bytes as E'hex' on Postgres, x'hex' on SQLite
\* and 0xhex on MSSQL, booleans as true/false on Postgres and SQLite and 1/0 on
\* MSSQL, on MSSQL a UUID as CONVERT(uniqueidentifier, N'...') and a time as
\* CONVERT(datetimeoffset, N'...'); a null of any kind is written null on every
\* dialect.
C20_RawLiterals ==
    \A v \in RawValues :
        (IsRawOf(v) /\ (v.null \/ v.kind \in Literals(dialect)))
            => AlwaysReturns("SELECT " \o Literal(dialect, v))

\* ------------------------------------------------------------------------
\* the raw and the parameterized path
\* ------------------------------------------------------------------------
\* the values of the input are all raw
AllRaw ==
    /\ ast.q = "Select"
    /\ ast.node \in RawSelects(RawValues \cup RawValuesCatchAll) \cup {TwoRaw}
\* entering visit_raw_value: nothing but writes (or the error) is left to do
\* for the value, and neither the parameters nor the placeholders change
RawStep ==
    (Stepping /\ Top.op = "visit_raw_value") =>
        /\ parameters' = parameters
        /\ Marks(query') = Marks(query)
        /\ \A i \in DOMAIN visit_raw_value(Top.arg) :
              LET c == visit_raw_value(Top.arg)[i]
              IN  /\ c.op \in {"write", "raise", "panic"}
                  /\ c.op = "write" => c.arg # PlaceholderMark
\* a write leaves the parameters alone
LiteralStep == (Stepping /\ Top.op = "write") => parameters' = parameters
\* visit_parameterized: one parameter more, one placeholder more
ParameterizedStep ==
    (Stepping /\ Top.op = "visit_parameterized") =>
        /\ parameters' = Append(parameters, Top.arg)
        /\ Cardinality(Marks(query') \ Marks(query)) = 1
        /\ Marks(query) \subseteq Marks(query')
RawBuildsEmpty ==
    AllRaw =>
        /\ parameters = <<>>
        /\ Marks(query) = {}
        /\ \A k \in DOMAIN results : results[k].values = <<>>
RawAroundBuildsOne ==
    (ast.q = "Select" /\ ast.node = RawAround) =>
        /\ \A k \in DOMAIN results :
              results[k].tag = "Ok" => results[k].values = <<Value_integer(2)>>
        /\ Returned => Cardinality(Marks(query)) = 1

\* C21: visiting a raw value writes literal text only, leaves the parameter
\* list as it is and writes no placeholder; visiting a value that is not raw
\* writes one placeholder and appends one parameter; a query whose values are
\* all raw returns an empty value list on every dialect, and one with a single
\* value that is not raw returns that value alone.
C21_RawAndParameterized ==
    /\ [](RawBuildsEmpty /\ RawAroundBuildsOne)
    /\ [][RawStep /\ LiteralStep /\ ParameterizedStep]_vars

\* build has returned the text of the two raw values, without values
C21_Witness ==
    /\ Returned
    /\ ast.node = TwoRaw
    /\ results[Len(results)].values = <<>>
    /\ Len(query) >= 3

\* ------------------------------------------------------------------------
\* RETURNING on MSSQL
\* ------------------------------------------------------------------------
\* MSSQL has returned the text of an Insert with columns to return
ReturnsKeys ==
    /\ dialect = "Mssql"
    /\ ast.q = "Insert"
    /\ IsSome(ast.node.returning)
    /\ Len(Unwrap(ast.node.returning)) > 0
    /\ Returned
KeyColumns == Unwrap(ast.node.returning)
Slice(a, b) == Concat(SubSeq(query, a, b))
Least(S) == CHOOSE p \in S : \A x \in S : p <= x
Greatest(S) == CHOOSE p \in S : \A x \in S : x <= p
At(chunk) == {p \in 1..Len(query) : query[p] = chunk}
\* where the statement, its OUTPUT, the INTO of the OUTPUT and the closing
\* SELECT begin
StatementAt == Least(At("INSERT") \cup At("MERGE INTO "))
OutputAt == Least(At(" OUTPUT "))
KeysAt == Least({p \in At(" INTO ") : p > OutputAt})
KeysSelectAt == Greatest(At("SELECT "))
Lowered == query[StatementAt] = "MERGE INTO "
\* the values the insert itself carries
OwnValues(insert) ==
    LET kind == insert.values.kind
        of(row) == {row[j].kind.value : j \in 1..Len(row)}
    IN  IF kind.k = "Row" THEN of(kind.values)
        ELSE UNION {of(kind.rows[r]) : r \in 1..Len(kind.rows)}
KeyEquals(c) == "[t].[" \o c.name \o "] = [g].[" \o c.name \o "]"
KeysJoin ==
    IF Len(KeyColumns) = 1 THEN KeyEquals(KeyColumns[1])
    ELSE "(" \o Joined([k \in 1..Len(KeyColumns) |-> KeyEquals(KeyColumns[k])], " AND ")
         \o ")"
\* DECLARE @generated_keys table(...) with one definition for every column
Declared ==
    /\ SubSeq(query, 1, 4) = <<"DECLARE ", "@generated_keys", " table", "(">>
    /\ SubSeq(query, StatementAt - 2, StatementAt - 1) = <<")", " ">>
    /\ \A p \in 5..(StatementAt - 3) : Depth(p) >= 1 /\ query[p] # ")"
    /\ Cardinality({p \in 5..(StatementAt - 3) : query[p] = ","}) = Len(KeyColumns) - 1
    /\ Cardinality({p \in 5..(StatementAt - 3) : query[p] = "NVARCHAR(255)"})
           = Len(KeyColumns)
    /\ \A k \in 1..Len(KeyColumns) :
          Cardinality({p \in 5..(StatementAt - 3) : query[p] = KeyColumns[k].name}) = 1
\* OUTPUT [Inserted].<col>,... INTO @generated_keys, once, inside the statement
OutputInto ==
    /\ Cardinality(At(" OUTPUT ")) = 1
    /\ StatementAt < OutputAt
    /\ Slice(OutputAt, KeysAt + 1)
         = " OUTPUT "
           \o Joined([k \in 1..Len(KeyColumns) |-> "[Inserted].[" \o KeyColumns[k].name \o "]"],
                     ",")
           \o " INTO @generated_keys"
    /\ IF Lowered
       THEN /\ query[KeysAt + 2] = "; "
            /\ KeysSelectAt = KeysAt + 3
            /\ At(";") = {}
       ELSE /\ query[KeysAt + 2] \in {" VALUES ", " DEFAULT VALUES"}
            /\ \A p \in At(" VALUES ") \cup At(" DEFAULT VALUES") : p > KeysAt
            /\ KeysSelectAt > KeysAt + 2
            /\ query[KeysSelectAt - 1] = " "
\* the SELECT that closes the text
KeysSelected ==
    Slice(KeysSelectAt, Len(query))
      = "SELECT "
        \o Joined([k \in 1..Len(KeyColumns) |-> "[t].[" \o KeyColumns[k].name \o "]"], ",")
        \o " FROM @generated_keys AS g INNER JOIN [foo] AS [t] ON " \o KeysJoin
        \o " WHERE @@ROWCOUNT > 0"
\* the static defaults of the indexed columns, which the ON of a MERGE compares
OwnDefaults(insert) ==
    LET of(cols) == {Unwrap(cols[j].default).value :
                        j \in {x \in 1..Len(cols) : IsSome(cols[x].default)}}
    IN  UNION {of(IndexesOf(insert)[i].cols) : i \in 1..Len(IndexesOf(insert))}
\* no placeholder in the three parts, as many parameters as placeholders, and
\* no parameter but the values of the insert (and, in a MERGE, the defaults its
\* ON predicate compares)
KeysAddNoParameter ==
    /\ \A p \in Marks(query) :
          /\ p > StatementAt
          /\ p < OutputAt \/ p > KeysAt + 1
          /\ p < KeysSelectAt
    /\ Len(parameters) = Cardinality(Marks(query))
    /\ OwnValues(ast.node) \subseteq {parameters[j] : j \in 1..Len(parameters)}
    /\ {parameters[j] : j \in 1..Len(parameters)} \ OwnValues(ast.node)
          \subseteq (IF Lowered THEN OwnDefaults(ast.node) ELSE {})

\* C22: on MSSQL an Insert with columns to return, or the MERGE it is lowered
\* to, is written as DECLARE @generated_keys table(one definition per column),
\* then the statement with OUTPUT [Inserted].<col>,... INTO @generated_keys
\* (before VALUES in an INSERT, before the closing ; of a MERGE), then SELECT
\* [t].<col>,... FROM @generated_keys AS g INNER JOIN <table> AS [t] ON the
\* equality of every returned column WHERE @@ROWCOUNT > 0; these parts hold no
\* placeholder and add no parameter to those of the statement.
C22_ReturningEmulation ==
    ReturnsKeys => (Declared /\ OutputInto /\ KeysSelected /\ KeysAddNoParameter)

\* a MERGE that returns two columns of two rows has been written
C22_Witness ==
    /\ ReturnsKeys
    /\ Lowered
    /\ Len(KeyColumns) = 2
    /\ Len(parameters) = 4
\* an INSERT that returns a column has been written
C22_WitnessInsert ==
    /\ ReturnsKeys
    /\ ~Lowered
    /\ Len(parameters) = 2

\* what build returns for a query q that has no ordering: the steps of the
\* visitor, one after the other, on a visitor of its own
RECURSIVE Run(_, _, _)
Run(items, chunks, params) ==
    IF Len(items) = 0 THEN BuildOk(Concat(chunks), params)
    ELSE LET c == Head(items)
         IN CASE c.op = "write" -> Run(Tail(items), Append(chunks, c.arg), params)
              [] c.op = "visit_parameterized" ->
                    Run(Tail(items),
                        parameter_substitution(chunks, add_parameter(params, c.arg)),
                        add_parameter(params, c.arg))
              [] c.op = "set_order_by" -> Run(Tail(items), chunks, params)
              [] c.op = "raise" -> BuildErr(c.arg)
              [] c.op = "panic" -> BuildErr("panic")
              [] OTHER -> Run(Body(c) \o Tail(items), chunks, params)
Built(q) == Run(<<Call("visit_query", q)>>, new_query, new_parameters)

\* the input is an Insert whose list of columns to return is there and empty
ReturnsNothing ==
    /\ ast.q = "Insert"
    /\ ast.node.returning = Some(<<>>)
WithoutReturning == Query_Insert([ast.node EXCEPT !.returning = None])

\* C30: on Postgres, SQLite and MSSQL an Insert with an empty list of columns
\* to return gives the text and the parameters of the same Insert without
\* RETURNING: no RETURNING, no DECLARE @generated_keys, no OUTPUT ... INTO and
\* no closing SELECT is written.
C30_EmptyReturningIsNone ==
    ReturnsNothing =>
        /\ pc # "aborted"
        /\ At(" RETURNING ") \cup At("DECLARE ") \cup At(" OUTPUT ") \cup At(GENERATED_KEYS) = {}
        /\ \A k \in DOMAIN results : results[k] = Built(WithoutReturning)

\* ------------------------------------------------------------------------
\* the casts of = and <> on Postgres
\* ------------------------------------------------------------------------
\* the input is SELECT ... WHERE l = r or l <> r over the operands above
Compared ==
    /\ ast.q = "Select"
    /\ IsSome(ast.node.conditions)
    /\ Unwrap(ast.node.conditions).ct = "Single"
    /\ Unwrap(ast.node.conditions).list[1] \in CastCompares
Comparison == Unwrap(ast.node.conditions).list[1].kind.compare
\* the cast that an operand asks of the other side
CastOf(e) ==
    IF e.kind.k = "Parameterized" /\ e.kind.value.kind = "Json" THEN "::jsonb"
    ELSE IF e.kind.k = "Parameterized" /\ e.kind.value.kind = "Xml" THEN "::text"
    ELSE ""
ValuesIn(e) == IF e.kind.k = "Parameterized" THEN <<e.kind.value>> ELSE <<>>
\* the chunks of an operand: the column, or the placeholder with its number
OperandChunks(e, before) ==
    IF e.kind.k = "Parameterized" THEN <<"$", ToString(before + 1)>>
    ELSE Expand(<<Call("visit_expression", e)>>)
OperatorAt == Least(At(" = ") \cup At(" <> "))
WhereAt == Least(At(" WHERE "))
\* Postgres has written l, the cast r asks for, the operator, r, the cast l
\* asks for, and nothing else after WHERE
CastsWritten ==
    /\ query[OperatorAt] = (IF Comparison.c = "Equals" THEN " = " ELSE " <> ")
    /\ SubSeq(query, WhereAt + 1, OperatorAt - 2) = OperandChunks(Comparison.left, 0)
    /\ query[OperatorAt - 1] = CastOf(Comparison.right)
    /\ SubSeq(query, OperatorAt + 1, Len(query) - 1)
         = OperandChunks(Comparison.right, Len(ValuesIn(Comparison.left)))
    /\ query[Len(query)] = CastOf(Comparison.left)
Casts == At("::jsonb") \cup At("::text")

\* C24: on Postgres l = r and l <> r write ::jsonb after l when r is a JSON
\* value and ::text after l when r is an XML value, and the same after r for l;
\* no cast is written when neither is one; the parameters are the values of l
\* and r whatever the casts; SQLite and MSSQL never write a cast.
C24_EqualityCasts ==
    Compared =>
        /\ (dialect = "Postgres" /\ Returned) => CastsWritten
        /\ (dialect = "Postgres" /\ CastOf(Comparison.left) = "" /\ CastOf(Comparison.right) = "")
              => Casts = {}
        /\ dialect # "Postgres" => Casts = {}
        /\ Returned => parameters = ValuesIn(Comparison.left) \o ValuesIn(Comparison.right)

\* Postgres has returned <xml> <> <json>, with both casts
C24_Witness ==
    /\ Compared
    /\ dialect = "Postgres"
    /\ Returned
    /\ Comparison.c = "NotEquals"
    /\ CastOf(Comparison.left) = "::text"
    /\ CastOf(Comparison.right) = "::jsonb"
    /\ Cardinality(Casts) = 2

\* ------------------------------------------------------------------------
\* the assignments of an Update
\* ------------------------------------------------------------------------
Assignments == ast.node
\* the two lists of an Update are as long as each other
Paired == ast.q = "Update" => Len(Assignments.columns) = Len(Assignments.values)
\* a call of set leaves every pair where it is and puts its own pair last
SetStep ==
    (ast.q = "Update" /\ ast'.node.columns # ast.node.columns) =>
        /\ Len(ast'.node.columns) = Len(ast.node.columns) + 1
        /\ Len(ast'.node.values) = Len(ast.node.columns) + 1
        /\ \A i \in 1..Len(ast.node.columns) :
              /\ ast'.node.columns[i] = ast.node.columns[i]
              /\ ast'.node.values[i] = ast.node.values[i]
        /\ ast'.node.columns[Len(ast'.node.columns)] \in SetColumns
        /\ ast'.node.values[Len(ast'.node.values)] \in SetValues
        /\ ast'.node.conditions = ast.node.conditions
        /\ ast'.node.table = ast.node.table
\* an identifier and the k-th placeholder as the dialect writes them
Delimited(name) ==
    CASE dialect = "Postgres" -> "\"" \o name \o "\""
      [] dialect = "Sqlite" -> "^" \o name \o "^"
      [] dialect = "Mssql" -> "[" \o name \o "]"
Holder(k) ==
    CASE dialect = "Postgres" -> "$" \o ToString(k)
      [] dialect = "Sqlite" -> "?"
      [] dialect = "Mssql" -> "@P" \o ToString(k)
\* UPDATE t SET c1 = p1, c2 = p2, ... WHERE bar = p
UpdateText(update) ==
    "UPDATE " \o Delimited("users") \o " SET "
    \o Joined([i \in 1..Len(update.columns) |->
                  Delimited(update.columns[i].name) \o " = " \o Holder(i)], ", ")
    \o (IF IsSome(update.conditions)
        THEN " WHERE " \o Delimited("bar") \o " = " \o Holder(Len(update.columns) + 1)
        ELSE "")
UpdateValues(update) ==
    [i \in 1..Len(update.values) |-> update.values[i].kind.value]
    \o (IF IsSome(update.conditions) THEN <<Value_boolean(FALSE)>> ELSE <<>>)
UpdateRendered ==
    (ast.q = "Update" /\ Len(Assignments.columns) > 0) =>
        \A k \in DOMAIN results :
            results[k] = BuildOk(UpdateText(Assignments), UpdateValues(Assignments))

\* C25: after any calls of set the columns and the values of an Update are as
\* many, the i-th column with the i-th value in the order of the calls; the
\* statement lists the assignments in that order, and the parameters of SET
\* come before those of WHERE.
C25_UpdatePairs == [](Paired /\ UpdateRendered) /\ [][SetStep]_vars

\* three assignments and a condition have been built
C25_Witness ==
    /\ ast.q = "Update"
    /\ Returned
    /\ Len(Assignments.columns) = 3
    /\ Assignments.columns[1] # Assignments.columns[2]
    /\ Assignments.values[2] # Assignments.values[3]
    /\ Len(parameters) = 4
\* SQLite has built Update::table("users").set("foo", 1).so_that("bar".equals(false))
C25_Example ==
    /\ dialect = "Sqlite"
    /\ Len(results) > 0
    /\ results[1] = BuildOk("UPDATE ^users^ SET ^foo^ = ? WHERE ^bar^ = ?",
                            <<Value_integer(1), Value_boolean(FALSE)>>)

\* ------------------------------------------------------------------------
\* the parameters of LIMIT and OFFSET
\* ------------------------------------------------------------------------
\* the input is a Select with or without ordering, limit, offset, alone or with
\* a value and a condition of its own
Paginated == ast.q = "Select" /\ ast.node \in PagedSelects \cup PagedAmongOthers
\* the parameters of the Select that are not of its pagination
OtherValues ==
    IF ast.node \in PagedAmongOthers THEN <<Value_text("v"), Value_integer(3)>> ELSE <<>>
\* the parameters that the pagination appends, where the claim lays them down
PageValues ==
    LET L == ast.node.limit
        O == ast.node.offset
    IN CASE IsSome(L) /\ IsSome(O) ->
              IF dialect = "Mssql" THEN <<Unwrap(O), Unwrap(L)>> ELSE <<Unwrap(L), Unwrap(O)>>
         [] IsSome(L) /\ IsNone(O) ->
              IF dialect = "Mssql" THEN <<Value_integer(0), Unwrap(L)>> ELSE <<Unwrap(L)>>
         [] IsNone(L) /\ IsSome(O) /\ dialect = "Postgres" -> <<Unwrap(O)>>
         [] IsNone(L) /\ IsNone(O) -> <<>>
\* the keywords in front of the placeholders of the pagination, in their order
PageKeywords ==
    LET L == ast.node.limit
        O == ast.node.offset
    IN CASE IsSome(L) /\ IsSome(O) ->
              IF dialect = "Mssql" THEN <<" OFFSET ", " ROWS FETCH NEXT ">>
              ELSE <<" LIMIT ", " OFFSET ">>
         [] IsSome(L) /\ IsNone(O) ->
              IF dialect = "Mssql" THEN <<" OFFSET ", " ROWS FETCH NEXT ">> ELSE <<" LIMIT ">>
         [] IsNone(L) /\ IsSome(O) /\ dialect = "Postgres" -> <<" OFFSET ">>
         [] IsNone(L) /\ IsNone(O) -> <<>>
Claimed ==
    ~(IsNone(ast.node.limit) /\ IsSome(ast.node.offset) /\ dialect # "Postgres")
\* the pagination parameters are the last ones, each bound where its keyword is
PageParametersLast ==
    LET n == Len(OtherValues)
    IN  /\ parameters = OtherValues \o PageValues
        /\ \A j \in 1..Len(PageValues) :
              /\ bound[n + j].at > 1
              /\ query[bound[n + j].at - 1] = PageKeywords[j]
              /\ Cardinality(At(PageKeywords[j])) = 1
        /\ \A i \in 1..n : \A j \in 1..Len(PageValues) : bound[i].at < bound[n + j].at
        /\ (dialect = "Postgres" /\ IsNone(ast.node.limit)) => At(" LIMIT ") = {}

\* C26: the parameters of the pagination are appended in the order of their
\* placeholders: limit L and offset O give [L, O] after LIMIT and OFFSET on
\* Postgres and SQLite and [O, L] after OFFSET and FETCH NEXT on MSSQL, a limit
\* alone gives [0, L] on MSSQL, an offset alone OFFSET p with [O] on Postgres;
\* they come after every other parameter of the Select.
C26_PaginationOrder ==
    /\ (Paginated /\ Claimed /\ Returned) => PageParametersLast
    /\ (Paginated /\ Returned) =>
          SubSeq(parameters, 1, Len(OtherValues)) = OtherValues

\* MSSQL has returned text, 3, offset 5, limit 10 for a Select with a value, a
\* condition, a limit and an offset
C26_Witness ==
    /\ dialect = "Mssql"
    /\ Returned
    /\ ast.node = PagedAmong(TRUE, Some(Value_integer(10)), Some(Value_integer(5)))
    /\ parameters = <<Value_text("v"), Value_integer(3), Value_integer(5), Value_integer(10)>>

\* ------------------------------------------------------------------------
\* the rows of an Insert lowered to a MERGE
\* ------------------------------------------------------------------------
\* the input is an Insert of m >= 1 rows with a conflict policy
MultiRow ==
    /\ ast.q = "Insert"
    /\ ast.node \in Inserts
    /\ IsSome(ast.node.on_conflict)
    /\ ast.node.values.kind.k = "Values"
    /\ Len(ast.node.values.kind.rows) >= 1
RECURSIVE RowValues(_)
RowValues(rows) ==
    IF rows = <<>> THEN <<>>
    ELSE [j \in 1..Len(Head(rows)) |-> Head(rows)[j].kind.value] \o RowValues(Tail(rows))
UsingAt == Least(At(" USING "))
OnAt == Least({p \in At(" ON ") : p > UsingAt})
\* one SELECT for every row between USING and ON, joined by UNION ALL, and the
\* values of the rows bound there in row-major order
RowsKept ==
    LET rows == ast.node.values.kind.rows
        vals == RowValues(rows)
        inUsing(p) == UsingAt < p /\ p < OnAt
    IN  /\ Cardinality({p \in At("SELECT ") : inUsing(p)}) = Len(rows)
        /\ Cardinality({p \in At("UNION ALL") : inUsing(p)}) = Len(rows) - 1
        /\ Cardinality({p \in Marks(query) : inUsing(p)}) = Len(vals)
        /\ Len(parameters) >= Len(vals)
        /\ SubSeq(parameters, 1, Len(vals)) = vals
        /\ \A j \in 1..Len(vals) : inUsing(bound[j].at)

\* C27: lowering an Insert of rows r1..rm (m >= 1) with a conflict policy
\* keeps the rows and their order: USING holds SELECT(r1) UNION ALL ... UNION
\* ALL SELECT(rm) and the parameters are r1, r2, ..., rm in row-major order.
C27_MergeKeepsRows ==
    (dialect = "Mssql" /\ MultiRow /\ Returned) => RowsKept

\* the same for an Insert of one row only
C27_OneRowKept ==
    (dialect = "Mssql" /\ MultiRow /\ Returned /\ Len(ast.node.values.kind.rows) = 1) => RowsKept

\* MSSQL has returned the MERGE of an Insert of two rows
C27_Witness ==
    /\ dialect = "Mssql"
    /\ MultiRow
    /\ Returned
    /\ Len(ast.node.values.kind.rows) = 2
    /\ Lowered

\* ------------------------------------------------------------------------
\* the separators of a tuple comparison on MSSQL
\* ------------------------------------------------------------------------
\* the input is WHERE Row(..) IN / NOT IN Values(r1..rm) with m >= 1 rows
TupleCompared ==
    /\ ast.q = "Select"
    /\ \/ \E w \in 2..MaxWidth, m \in 1..MaxRows, neg \in BOOLEAN :
             ast.node = Where(TupleIn(w, m, neg))
       \/ \E ws \in RaggedWidths, neg \in BOOLEAN : ast.node = Where(RaggedIn(ws, neg))
Compare == Unwrap(ast.node.conditions).list[1].kind.compare
LeftRow == Compare.left.kind.values
RightRows == Compare.right.kind.rows
EqualWidths == \A r \in 1..Len(RightRows) : Len(RightRows[r]) = Len(LeftRow)
\* the groups: the parentheses opened inside the outer one after WHERE
GroupOpens == {p \in At("(") : p > Least(At(" WHERE ")) /\ Depth(p) = 1}
GroupClose(p) == Least({q \in At(")") : q > p})
Within(p, chunk) == Cardinality({q \in At(chunk) : p < q /\ q < GroupClose(p)})
NthGroup(r) == CHOOSE p \in GroupOpens : Cardinality({q \in GroupOpens : q < p}) = r - 1
SeparatorsMatch ==
    /\ Cardinality(GroupOpens) = Len(RightRows)
    /\ Cardinality(At(" OR ")) = Len(RightRows) - 1
    /\ \A p \in GroupOpens : Within(p, " AND ") = Within(p, " = ") - 1
    /\ \A p \in At(" AND ") : query[p + 1] # ")"
    /\ \A r \in 1..Len(RightRows) :
          /\ Within(NthGroup(r), " = ") >= Len(LeftRow)
          /\ Within(NthGroup(r), " = ") >= Len(RightRows[r])
    /\ parameters = RowValues(RightRows)

\* C28: on MSSQL every group of a tuple comparison holds one l = r for every
\* pair and one AND less than comparisons, the groups are joined by one OR
\* less than rows, also when a row is narrower or wider than the left row: no
\* group ends with AND and no left column and no row value is left out.
C28_TupleSeparators ==
    (dialect = "Mssql" /\ TupleCompared /\ Returned) => SeparatorsMatch

\* the same for rows that are as wide as the left row
C28_EqualWidthSeparators ==
    (dialect = "Mssql" /\ TupleCompared /\ EqualWidths /\ Returned) => SeparatorsMatch

\* MSSQL has returned the text for (id1, id2) IN ((11), (21, 22))
C28_Witness ==
    /\ dialect = "Mssql"
    /\ ast.q = "Select"
    /\ ast.node = Where(RaggedIn(<<1, 2>>, FALSE))
    /\ Returned

\* ------------------------------------------------------------------------
\* which values a driver binds
\* ------------------------------------------------------------------------
\* the value of the request, and what binding and converting it have given
TheValue == (request.pending \o request.args)[1]
BindingOne == Len(request.pending \o request.args) = 1 /\ request.sent = <<>>
BoundOk == BindingOne /\ request.step = "binding" /\ request.args # <<>>
BoundErr == BindingOne /\ request.step = "failed"
Tried == BoundOk \/ BoundErr
\* what the claim lays down for a driver and a kind; TRUE: binds, FALSE: is
\* rejected; no entry where it lays down nothing
MssqlKinds == {"I8", "I16", "I32", "I64", "Float", "Double", "Boolean", "Text"}
PostgresOnly == {"PgInterval", "PgMoney", "PgTimeTz", "IpNetwork"}
LaidDown(driver, kind) ==
    \/ kind = "U64"
    \/ kind \in PostgresOnly
    \/ driver = "mssql"
Binds(driver, kind) ==
    CASE kind = "U64" -> driver = "mysql"
      [] kind \in PostgresOnly -> driver = "postgres"
      [] driver = "mssql" -> kind \in MssqlKinds
\* a rejection is a ConversionError and binds nothing, an acceptance binds the
\* value itself, the table of the claim is kept, and TryFrom gives the same
BindTables ==
    /\ BoundErr => request.error = "ConversionError" /\ request.args = <<>>
    /\ BoundOk => request.args = <<TheValue>> /\ request.pending = <<>> /\ request.error = ""
    /\ (Tried /\ LaidDown(request.driver, TheValue.kind)) =>
          (BoundOk <=> Binds(request.driver, TheValue.kind))
    /\ (Tried /\ request.converted # "") => (BoundOk <=> request.converted = "Ok")

\* C23: binding rejects every pair of driver and kind that the driver does not
\* support with a ConversionError and binds no other value than the one given:
\* U64 binds on MySQL only, PgInterval, PgMoney, PgTimeTz and IpNetwork on
\* Postgres only, on MSSQL exactly I8, I16, I32, I64, Float, Double, Boolean and
\* Text bind, and try_bind_value and TryFrom<Value> accept the same pairs.
C23_BindRejects == BindTables

\* the same for the variants that the matches have an arm for
C23_ListedKindsBind == (BindingOne /\ TheValue.kind \in ListedKinds) => BindTables

\* a U64 has been rejected on Postgres by both, with a ConversionError
C23_Witness ==
    /\ BoundErr
    /\ request.driver = "postgres"
    /\ TheValue.kind = "U64"
    /\ request.converted = "Err"

\* ------------------------------------------------------------------------
\* the order of the steps of a request
\* ------------------------------------------------------------------------
\* the request has got as far as binding: the build has returned Ok
Binding == request.step \in {"binding", "done"} \/ (request.step = "failed" /\ IsSome(request.compiled))
\* the arguments bound so far and the parameters still to bind are the value
\* list of the build, in its order
InBuildOrder ==
    /\ Len(results) = 1
    /\ results[1].tag = "Ok"
    /\ request.compiled = Some(results[1].text)
    /\ request.args \o request.pending = results[1].values
\* nothing is compiled or bound before the build has returned
NothingBefore ==
    /\ request.compiled = None
    /\ request.args = <<>>
    /\ request.pending = <<>>
\* the connection is sent one statement, after the last parameter is bound
SentLast ==
    IF request.step = "done"
    THEN /\ request.pending = <<>>
         /\ request.sent = <<[text |-> results[1].text, args |-> results[1].values]>>
    ELSE request.sent = <<>>
\* an error of build or of a binding is the error returned
ErrorReturned ==
    request.step = "failed" =>
        IF IsSome(request.compiled)
        THEN /\ request.pending # <<>>
             /\ try_bind_value(request.driver, Head(request.pending), request.unlisted) = "Err"
             /\ request.error = "ConversionError"
        ELSE results[1].tag = "Err" /\ request.error = results[1].error

\* C29: a request compiles, then binds every parameter in the order of the
\* built value list, then executes; when build or a binding fails the error is
\* returned and nothing is sent to the connection; no parameter is bound twice
\* or skipped.
C29_CompileBindExecute ==
    request.step # "none" =>
        /\ IF Binding THEN InBuildOrder ELSE NothingBefore
        /\ SentLast
        /\ ErrorReturned
        /\ pc # "idle" => request.step = "building"

\* a statement with two parameters has been sent with both bound in order
C29_Witness ==
    /\ request.step = "done"
    /\ Len(request.sent) = 1
    /\ Len(request.sent[1].args) >= 2
    /\ request.sent[1].args[1] # request.sent[1].args[2]
    /\ request.sent[1].args = parameters

\* a binding has failed after another parameter was bound: nothing is sent
C29_WitnessRejected ==
    /\ request.step = "failed"
    /\ request.args # <<>>
    /\ request.sent = <<>>

====
